---- MODULE Spec2Model ----
(***************************************************************************)
(* Realtime reconciliation core of the chat feature: the hooks             *)
(* useChatRealtime and useChatRoom (one ChatRoom component instance, which *)
(* is not keyed by roomId, so the hook state survives room switches) and   *)
(* the parts of chatService they call, against a shared store.             *)
(*                                                                         *)
(* Scheduling: JavaScript runs each continuation of an async function to   *)
(* its next await without interruption, and React 19 batches the state     *)
(* updates of one continuation into one render whose effects are flushed   *)
(* before the next continuation runs.  One action of the model is one such *)
(* continuation together with the render and the effects it causes.  A     *)
(* store request is answered in the step that delivers its response.       *)
(***************************************************************************)
EXTENDS Integers, Sequences, FiniteSets, TLC

\* ------------------------------------------------------------------ bounds
MaxClock    == 1    \* values of Date.now() are 0..MaxClock
MaxRows     == 2    \* rows ever inserted into chat_messages
MaxSends    == 2    \* sendMessage calls
MaxSwitches == 2    \* changes of the selected room
MaxErr      == 1    \* transient failures of a store request
MaxDeliver  == 2    \* deliveries of one change event (at-least-once feed)
MaxSessions == 1    \* sign-outs of the local user
MaxMemberOps == 1   \* joinRoom / leaveRoom calls
MaxBeats    == 1    \* firings of the presence timers
MaxSweeps   == 1    \* checkAndDeleteEmptyRooms calls
MaxTabJoins == 1    \* joinChatRoom calls of another session of the user
MaxSyncs    == 2    \* syncUser and refetch runs of useSupabaseUser

\* ------------------------------------------------------- program constants
FetchLimit == 50    \* fetchChatMessages(roomId, limit = 50, offset = 0)
OnlineWindowMinutes   == 10   \* fetchOnlineUsers: Date.now() - 10 * 60 * 1000
DefaultTimeoutMinutes == 5    \* isUserOnline(lastSeenAt, timeoutMinutes = 5)
MinuteMs              == 60000   \* 60 * 1000 milliseconds

\* ------------------------------------------------------------- value sets
NULL      == "null"
Undefined == "undefined"
Me        == "u1"
Other     == "u2"
Users     == {Me, Other}
Rooms     == {"A", "B"}
Texts     == {"a", "b"}

\* chat_rooms rows are immutable here: A is public, B is private and was
\* created by the other user.
IsPrivate(r) == r = "B"
CreatedBy(r) == Other

VARIABLES
  \* the store
  dbRooms,          \* ids of the rows of chat_rooms
  dbMessages,       \* rows of chat_messages, in insertion order
  dbMembers,        \* rows of chat_room_members as <<room_id, user_id>>
  memberRows,       \* number of rows of chat_room_members per <<room_id, user_id>>
  rowCount,         \* rows ever inserted into chat_messages (next id - 1)
  now,              \* Date.now()
  \* the component
  mounted, supabaseUser, roomId,
  \* useChatRealtime
  messages, isSubscribed, rtError,
  subscriptions,    \* subscriptions.current
  channels,         \* channels the realtime client holds subscribed
  intervals,        \* timers the browser holds active
  epoch,            \* number of runs of the subscription effect
  feed,             \* change events the live channels can deliver, with their deliveries so far
  initFetches,      \* history fetches of the subscription effect in flight
  \* useChatRoom
  loading, error, members, hasJoined, pendingMessages, roomExists,
  sends,            \* sendMessage calls
  loads,            \* steps in flight of the load effect, loadMessages, loadMembers
  resends,          \* sendChatMessage calls in flight of the load effect cleanup
  memberOps,        \* joinRoom / leaveRoom calls in flight
  \* bookkeeping of the bounds
  switches, errs, sessions, memberOpCount,
  netFails,         \* whether requests can fail in this behaviour
  \* presence
  dbSeen,           \* last_seen_at of the rows of users, in milliseconds
  onlineUsers,      \* ids of the users of the snapshot last published
  presence,         \* updatePresence / fetchOnlineUsers requests in flight
  beats,            \* firings of the presence timers
  \* useChatRooms and ChatProvider
  rooms,            \* ids of the rooms of the room list
  sweeps,           \* checkAndDeleteEmptyRooms calls in flight
  sweepCount,       \* checkAndDeleteEmptyRooms calls so far
  \* another session of the local user
  tabJoins,         \* its joinChatRoom calls
  \* useSupabaseUser
  clerkUser,        \* the user Clerk reports as signed in, or NULL
  syncs             \* syncUser and refetch runs that await the store

storeVars == <<dbRooms, dbMessages, dbMembers, memberRows, rowCount, now>>
compVars  == <<mounted, supabaseUser, roomId>>
rtVars    == <<messages, isSubscribed, rtError, subscriptions, channels,
               intervals, epoch, feed, initFetches>>
roomVars  == <<loading, error, members, hasJoined, pendingMessages, roomExists,
               sends, loads, resends, memberOps>>
presVars  == <<dbSeen, onlineUsers, presence, beats>>
sweepVars == <<rooms, sweeps, sweepCount>>
authVars  == <<clerkUser, syncs>>
auxVars   == <<switches, errs, sessions, memberOpCount, netFails, presVars,
               sweepVars, tabJoins, authVars>>
vars      == <<storeVars, compVars, rtVars, roomVars, auxVars>>

\* ------------------------------------------------------------ small helpers
Min(S) == CHOOSE x \in S : \A y \in S : x <= y

Reverse(s) == [i \in 1..Len(s) |-> s[Len(s) + 1 - i]]

Bump(f, k) == [f EXCEPT ![k] = @ + 1]

Drop(f, k) == [f EXCEPT ![k] = @ - 1]

\* ----------------------------------------------------------- message shapes
TempId(t) == <<"temp", t>>

RowId(n) == <<"row", n>>

\* the id of a message that has none (undefined)
NoId == <<"undefined", 0>>

\* the id column of a payload that arrived without one
MissingId == -1

\* msg.id.toString().startsWith('temp-')
startsWithTemp(id) == id[1] = "temp"

\* useChatRoom.js sendMessage: the provisional message
tempMessage(room, user, text, t) ==
  [id |-> TempId(t), room_id |-> room, user_id |-> user, message |-> text,
   created_at |-> t, users |-> user]

\* the row insert(...).select().single() returns, with users added by sendMessage
realMessage(d, user) ==
  [id |-> RowId(d.id), room_id |-> d.room_id, user_id |-> d.user_id,
   message |-> d.message, created_at |-> d.created_at, users |-> user]

\* payload.new of a postgres_changes INSERT event: the bare row
payloadNew(d) ==
  [id |-> IF d.id = MissingId THEN NoId ELSE RowId(d.id), room_id |-> d.room_id, user_id |-> d.user_id,
   message |-> d.message, created_at |-> d.created_at, users |-> Undefined]

\* a row as fetchChatMessages selects it: id, message, created_at and the
\* joined users record; room_id and user_id are not selected
historyMessage(d) ==
  [id |-> RowId(d.id), room_id |-> Undefined, user_id |-> Undefined,
   message |-> d.message, created_at |-> d.created_at, users |-> d.user_id]

\* ------------------------------------------------------ chatService (store)
\* the rows of chat_room_members that hold the pairs of S, one each
RowsOf(S) == [k \in Rooms \X Users |-> IF k \in S THEN 1 ELSE 0]

\* an insert into a chat_room_members table without the UNIQUE constraint
insertMemberUnconstrained(rowsOf, r, u) ==
  [rowsOf EXCEPT ![<<r, u>>] = @ + 1]

\* insert into chat_room_members under UNIQUE(room_id, user_id): the row is
\* added, or the statement fails and the table is as it was
insertMember(rowsOf, r, u) ==
  IF rowsOf[<<r, u>>] > 0 THEN rowsOf
  ELSE [rowsOf EXCEPT ![<<r, u>>] = @ + 1]

\* getChatRoomDetails: the row, or null when there is none or the read failed
getChatRoomDetails(r, failed) == r \in dbRooms /\ ~failed

\* canAccessRoom
canAccessRoom(u, r) ==
  /\ r \in dbRooms
  /\ \/ ~IsPrivate(r)
     \/ CreatedBy(r) = u
     \/ <<r, u>> \in dbMembers

\* fetchChatMessages: rows of the room, newest first, at most FetchLimit
fetchChatMessages(r) ==
  LET rows == SelectSeq(dbMessages, LAMBDA d : d.room_id = r)
      desc == Reverse(rows)
      n    == IF Len(desc) < FetchLimit THEN Len(desc) ELSE FetchLimit
  IN  [i \in 1..n |-> historyMessage(desc[i])]

\* the row an insert into chat_messages creates
NewRow(u, r, text) ==
  [id |-> rowCount + 1, room_id |-> r, user_id |-> u, message |-> text,
   created_at |-> now]

\* ------------------------------------------------- useChatRealtime helpers
\* an isSameMessageContent that never finds two messages alike
isSameMessageContentNever(msg1, msg2) == FALSE

\* isSameMessageContent
isSameMessageContent(msg1, msg2) ==
  msg1.user_id = msg2.user_id /\ msg1.message = msg2.message

\* an updateMessageList without the check for an existing id
updateMessageListNoIdCheck(prevMessages, newMessage) ==
  LET temps == {i \in DOMAIN prevMessages :
                  /\ startsWithTemp(prevMessages[i].id)
                  /\ isSameMessageContent(prevMessages[i], newMessage)}
  IN  IF temps # {}
      THEN [prevMessages EXCEPT ![Min(temps)] = newMessage]
      ELSE <<newMessage>> \o prevMessages

\* updateMessageList: the updater handed to setMessages
updateMessageList(prevMessages, newMessage) ==
  IF \E i \in DOMAIN prevMessages : prevMessages[i].id = newMessage.id
  THEN prevMessages
  ELSE LET temps == {i \in DOMAIN prevMessages :
                       /\ startsWithTemp(prevMessages[i].id)
                       /\ isSameMessageContent(prevMessages[i], newMessage)}
       IN  IF temps # {}
           THEN [prevMessages EXCEPT ![Min(temps)] = newMessage]
           ELSE <<newMessage>> \o prevMessages

\* updateMessageList throws a TypeError: no entry has the id of the new
\* message, and findIndex reaches an entry without an id, whose
\* msg.id.toString() throws, before it finds a provisional entry to replace
updateMessageListThrows(prevMessages, newMessage) ==
  LET bad   == {i \in DOMAIN prevMessages : prevMessages[i].id = NoId}
      temps == {i \in DOMAIN prevMessages :
                  /\ startsWithTemp(prevMessages[i].id)
                  /\ isSameMessageContent(prevMessages[i], newMessage)}
  IN  /\ ~\E i \in DOMAIN prevMessages : prevMessages[i].id = newMessage.id
      /\ bad # {}
      /\ (temps = {} \/ Min(bad) < Min(temps))

\* addLocalMessage
addLocalMessage(prevMessages, message) == updateMessageList(prevMessages, message)

\* a handleNewMessage that prepends whatever arrives for the room
handleNewMessagePrepend(r, prevMessages, message) ==
  IF r # NULL /\ message.room_id = r
  THEN <<message>> \o prevMessages
  ELSE prevMessages

\* handleNewMessage of the closure created for room r
handleNewMessage(r, prevMessages, message) ==
  IF r # NULL /\ message.room_id = r
  THEN updateMessageList(prevMessages, message)
  ELSE prevMessages

\* loadMessages: fetchedMessages.forEach(addLocalMessage)
RECURSIVE addEach(_, _)
addEach(prevMessages, fetched) ==
  IF fetched = <<>> THEN prevMessages
  ELSE addEach(addLocalMessage(prevMessages, Head(fetched)), Tail(fetched))

\* a handle that is null
NoHandle == [type |-> "null", kind |-> "none", room |-> NULL, ep |-> 0]

\* subscriptions.current after the reset in cleanupSubscriptions
NoSubscriptions ==
  [messages |-> NoHandle, members |-> NoHandle, presence |-> NoHandle,
   presenceInterval |-> NoHandle]

\* Object.values(subscriptions.current) that pass if (subscription)
Handles(subs) ==
  {subs.messages, subs.members, subs.presence, subs.presenceInterval} \ {NoHandle}

\* typeof of a handle: channels are objects with an unsubscribe method, the
\* value setInterval returns in a browser is a number
TypeOf(h) == h.type

HasUnsubscribe(h) == h.type = "object"

\* a cleanupSubscriptions that resets the handles without unsubscribing
cleanupChannelsNoUnsubscribe(subs, chans) == chans

\* cleanupSubscriptions: what it leaves subscribed in the realtime client
cleanupChannels(subs, chans) ==
  chans \ {h \in Handles(subs) : TypeOf(h) # "function" /\ HasUnsubscribe(h)}

\* cleanupSubscriptions: what it leaves active among the timers
cleanupIntervals(subs, timers) ==
  timers \ {h \in Handles(subs) : TypeOf(h) = "function"}

Channel(kind, r, ep) == [type |-> "object", kind |-> kind, room |-> r, ep |-> ep]

Timer(ep) == [type |-> "number", kind |-> "interval", room |-> NULL, ep |-> ep]


\* the subscription effect of useChatRealtime for user u and room r, run as
\* effect number ep; failAt = k > 0 makes the k-th subscribe() throw.
\* The cleanup returned by the previous run and the cleanupSubscriptions()
\* call that opens the body act on the same handles, so they are one step.
subscriptionEffect(u, r, ep, failAt) ==
  LET chans0  == cleanupChannels(subscriptions, channels)
      timers0 == cleanupIntervals(subscriptions, intervals)
      cMsg    == Channel("messages", r, ep)
      cPres   == Channel("presence", r, ep)
      cMemb   == Channel("members", r, ep)
      tick    == Timer(ep)
      \* handles assigned before the throw, or all of them
      subs1   == [messages |-> IF failAt = 1 THEN NoHandle ELSE cMsg,
                  presence |-> IF failAt \in {1, 2} THEN NoHandle ELSE cPres,
                  members  |-> IF failAt \in {1, 2, 3} THEN NoHandle ELSE cMemb,
                  presenceInterval |-> IF failAt # 0 THEN NoHandle ELSE tick]
      chans1  == chans0 \cup {h \in Handles(subs1) : h.kind # "interval"}
      timers1 == timers0 \cup {h \in Handles(subs1) : h.kind = "interval"}
  IN  IF u = NULL
      THEN \* the effect returns before it subscribes
           [subscriptions |-> NoSubscriptions, channels |-> chans0,
            intervals |-> timers0, isSubscribed |-> FALSE, rtError |-> rtError,
            fetch |-> FALSE]
      ELSE IF failAt # 0
      THEN \* catch: setError, cleanupSubscriptions
           [subscriptions |-> NoSubscriptions,
            channels |-> cleanupChannels(subs1, chans1),
            intervals |-> cleanupIntervals(subs1, timers1),
            isSubscribed |-> FALSE, rtError |-> "setup", fetch |-> FALSE]
      ELSE [subscriptions |-> subs1, channels |-> chans1, intervals |-> timers1,
            isSubscribed |-> TRUE, rtError |-> NULL, fetch |-> r # NULL]

\* the cleanup alone (unmount)
subscriptionCleanup ==
  [subscriptions |-> NoSubscriptions,
   channels |-> cleanupChannels(subscriptions, channels),
   intervals |-> cleanupIntervals(subscriptions, intervals),
   isSubscribed |-> FALSE, rtError |-> rtError, fetch |-> FALSE]

\* events of channels that are no longer subscribed are not delivered
LiveFeed(fd, chans) == {e \in fd : e.chan \in chans}

\* ------------------------------------------------------------------ presence
\* the requests of updatePresence: updateUserPresence, then fetchOnlineUsers
PresencePhases == {"update", "fetch"}

\* a last_seen_at column: null, or a time in milliseconds
NeverSeen == [isNull |-> TRUE, ms |-> 0]
SeenAt(t) == [isNull |-> FALSE, ms |-> t]

\* isUserOnline(lastSeenAt, timeoutMinutes) evaluated at Date.now() = t
isUserOnline(lastSeenAt, timeoutMinutes, t) ==
  IF lastSeenAt.isNull THEN FALSE
  ELSE lastSeenAt.ms > t - timeoutMinutes * MinuteMs

\* updateUserPresence: the last_seen_at of the user's row becomes the time
\* of the call
updateUserPresence(u) == [dbSeen EXCEPT ![u] = SeenAt(now)]

\* the rows of the query of fetchOnlineUsers:
\* .gte('last_seen_at', tenMinutesAgo)
OnlineRows(t) ==
  {v \in Users : /\ ~dbSeen[v].isNull
                  /\ dbSeen[v].ms >= t - OnlineWindowMinutes * MinuteMs}

\* a fetchOnlineUsers that publishes the rows of the query as they are
fetchOnlineUsersRowsOnly(u, rows) == rows

\* fetchOnlineUsers of a closure created for user u, over the rows the
\* query returned: the user is added when signed in and not among them
fetchOnlineUsers(u, rows) ==
  IF u # NULL /\ u \notin rows THEN rows \cup {u} ELSE rows

\* ------------------------------------------------------ useChatRoom helpers
LoadPhases == {"effCheck", "lmCheck", "lmFetch", "mbCheck", "mbFetch"}

\* cleanup of the load effect: sendChatMessage for every pending message the
\* effect captured, under the roomId, supabaseUser and roomExists it captured
cleanupResend(res, r, u, pend, exists) ==
  IF r # NULL /\ u # NULL /\ exists
  THEN [k \in DOMAIN res |->
          res[k] + Cardinality({i \in DOMAIN pend : k = <<r, pend[i].text>>})]
  ELSE res

\* body of the load effect: checkRoomExists().then(...)
loadEffect(lds, r, u) ==
  IF r # NULL /\ u # NULL THEN Bump(lds, <<r, "effCheck">>) ELSE lds

\* A render after a continuation that called setRoomExists(exists) and, when
\* pendChanged, setPendingMessages: the load effect runs again when one of
\* its dependencies changed; its cleanup sees the values of the last render.
rerunLoadEffect(exists, pendChanged, res, lds) ==
  IF exists # roomExists \/ pendChanged
  THEN [resends |-> cleanupResend(res, roomId, supabaseUser, pendingMessages, roomExists),
        loads   |-> loadEffect(lds, roomId, supabaseUser)]
  ELSE [resends |-> res, loads |-> lds]

\* a checkRoomExists that does not ask the store
checkRoomExistsNoRead(r, failed) == r # NULL

\* checkRoomExists of a closure created for room r; failed: the read failed
checkRoomExists(r, failed) == r # NULL /\ getChatRoomDetails(r, failed)

\* the failures a store request can meet within the bound
Failures == IF netFails /\ errs < MaxErr THEN {FALSE, TRUE} ELSE {FALSE}

\* --------------------------------------------------------------------- Init
\* the client: the component has mounted, nobody is signed in, no room is
\* selected; both rooms exist
InitClient ==
  /\ dbRooms = Rooms
  /\ now = 0
  /\ mounted = TRUE
  /\ supabaseUser = NULL
  /\ roomId = NULL
  /\ messages = <<>>
  /\ isSubscribed = FALSE
  /\ rtError = NULL
  /\ subscriptions = NoSubscriptions
  /\ channels = {}
  /\ intervals = {}
  /\ epoch = 0
  /\ feed = {}
  /\ initFetches = [r \in Rooms |-> 0]
  /\ loading = TRUE
  /\ error = NULL
  /\ members = {}
  /\ hasJoined = FALSE
  /\ pendingMessages = <<>>
  /\ roomExists = TRUE
  /\ sends = {}
  /\ loads = [k \in Rooms \X LoadPhases |-> 0]
  /\ resends = [k \in Rooms \X Texts |-> 0]
  /\ memberOps = {}
  /\ switches = 0
  /\ errs = 0
  /\ sessions = 0
  /\ memberOpCount = 0
  /\ onlineUsers = {}
  /\ presence = [k \in PresencePhases |-> 0]
  /\ beats = 0
  /\ rooms = {}
  /\ sweeps = {}
  /\ sweepCount = 0
  /\ tabJoins = {}
  /\ clerkUser = NULL
  /\ syncs = {}

\* the same over a store without messages and memberships, where nobody
\* has been seen
InitState ==
  /\ InitClient
  /\ dbMessages = <<>>
  /\ dbMembers = {}
  /\ memberRows = RowsOf({})
  /\ rowCount = 0
  /\ dbSeen = [u \in Users |-> NeverSeen]

Init == InitState /\ netFails = TRUE

\* the same with a network whose requests never fail
InitReliable == InitState /\ netFails = FALSE

\* the local user joined room A and wrote a message there in an earlier
\* session, or never joined it; no request fails
InitMember ==
  /\ InitClient
  /\ dbMessages = <<[id |-> 1, room_id |-> "A", user_id |-> Me, message |-> "a",
                     created_at |-> 0]>>
  /\ rowCount = 1
  /\ dbMembers \in {{}, {<<"A", Me>>}}
  /\ memberRows = RowsOf(dbMembers)
  /\ dbSeen = [u \in Users |-> NeverSeen]
  /\ netFails = FALSE

\* last_seen_at values around the two online thresholds, at time 0
SeenTimes ==
  {NeverSeen} \cup
  {SeenAt(-(m * MinuteMs) + d) : m \in {OnlineWindowMinutes, DefaultTimeoutMinutes},
                                 d \in {-1, 0, 1}}

\* the local user has never been seen and the other user was last seen at
\* one of SeenTimes; requests may fail
InitPresence ==
  /\ InitClient
  /\ dbMessages = <<>>
  /\ dbMembers = {}
  /\ memberRows = RowsOf({})
  /\ rowCount = 0
  /\ dbSeen \in {f \in [Users -> SeenTimes] : f[Me] = NeverSeen}
  /\ netFails = TRUE

\* the other user is a member of room A or of no room and was last seen at
\* one of SeenTimes; the local user has never been seen; requests may fail
InitSweep ==
  /\ InitClient
  /\ dbMessages = <<>>
  /\ rowCount = 0
  /\ dbMembers \in {{}, {<<"A", Other>>}}
  /\ memberRows = RowsOf(dbMembers)
  /\ dbSeen \in {f \in [Users -> SeenTimes] : f[Me] = NeverSeen}
  /\ netFails = TRUE

\* the local and the other user are members of some rooms; no request fails
InitSweepMember ==
  /\ InitClient
  /\ dbMessages = <<>>
  /\ rowCount = 0
  /\ dbMembers \in SUBSET {<<"A", Me>>, <<"A", Other>>, <<"B", Me>>}
  /\ memberRows = RowsOf(dbMembers)
  /\ dbSeen \in {f \in [Users -> SeenTimes] : f[Me] = NeverSeen}
  /\ netFails = FALSE

\* ------------------------------------------------- the component re-renders
\* A render in which supabaseUser or roomId changed (u, r are the new
\* values), with the effects it flushes: the cleanups of the subscription
\* effect and of the load effect, then the bodies of the subscription
\* effect, of the reset effect (only when roomId changed to a room) and of
\* the load effect.  The reset effect sets state, so a second render
\* follows in which pendingMessages (a new array) has changed and the load
\* effect runs once more; the cleanup of that run belongs to the first
\* render, which saw the new roomId with the state not yet reset.
Commit(u, r, failAt) ==
  LET sub    == subscriptionEffect(u, r, epoch + 1, failAt)
      reset  == r # roomId /\ r # NULL
      res1   == cleanupResend(resends, roomId, supabaseUser, pendingMessages, roomExists)
      lds1   == loadEffect(loads, r, u)
      res2   == IF reset THEN cleanupResend(res1, r, u, pendingMessages, roomExists)
                ELSE res1
      lds2   == IF reset THEN loadEffect(lds1, r, u) ELSE lds1
  IN  /\ supabaseUser' = u
      /\ roomId' = r
      /\ epoch' = epoch + 1
      /\ subscriptions' = sub.subscriptions
      /\ channels' = sub.channels
      /\ intervals' = sub.intervals
      /\ isSubscribed' = sub.isSubscribed
      /\ rtError' = sub.rtError
      /\ feed' = LiveFeed(feed, sub.channels)
      /\ initFetches' = IF sub.fetch THEN Bump(initFetches, r) ELSE initFetches
      /\ resends' = res2
      /\ loads' = lds2
      /\ IF reset
         THEN /\ loading' = TRUE
              /\ error' = NULL
              /\ members' = {}
              /\ hasJoined' = FALSE
              /\ pendingMessages' = <<>>
              /\ roomExists' = TRUE
         ELSE UNCHANGED <<loading, error, members, hasJoined, pendingMessages, roomExists>>
      \* updatePresence() at the end of a setup that did not throw
      /\ presence' = IF sub.isSubscribed THEN Bump(presence, "update") ELSE presence
      /\ UNCHANGED <<mounted, messages, sends, memberOps>>

\* the subscribe() calls that can throw during setup, within the bound
SetupFailures == IF netFails /\ errs < MaxErr THEN 0..3 ELSE {0}

\* Clerk reports the user and the sync delivers supabaseUser
Login ==
  /\ mounted
  /\ supabaseUser = NULL
  /\ clerkUser = NULL
  /\ clerkUser' = Me
  /\ \E failAt \in SetupFailures :
       /\ Commit(Me, roomId, failAt)
       /\ errs' = IF failAt # 0 THEN errs + 1 ELSE errs
  /\ UNCHANGED <<storeVars, switches, sessions, memberOpCount,
                 netFails, dbSeen, onlineUsers, beats, sweepVars, tabJoins,
                 syncs>>

\* the user signs out
Logout ==
  /\ mounted
  /\ clerkUser # NULL
  /\ sessions < MaxSessions
  /\ clerkUser' = NULL
  /\ IF supabaseUser # NULL
     THEN Commit(NULL, roomId, 0)
     ELSE UNCHANGED <<compVars, rtVars, roomVars, presence>>
  /\ sessions' = sessions + 1
  /\ UNCHANGED <<storeVars, switches, errs, memberOpCount,
                 netFails, dbSeen, onlineUsers, beats, sweepVars, tabJoins,
                 syncs>>

\* Clerk reports the user: the sync effect of useSupabaseUser starts syncUser
SignIn ==
  /\ mounted
  /\ clerkUser = NULL
  /\ Cardinality(syncs) < MaxSyncs
  /\ clerkUser' = Me
  /\ syncs' = syncs \cup {[n |-> Cardinality(syncs) + 1, kind |-> "sync",
                            phase |-> "await"]}
  /\ UNCHANGED <<storeVars, compVars, rtVars, roomVars, switches, errs,
                 sessions, memberOpCount, netFails, presVars, sweepVars,
                 tabJoins>>

\* refetch() of a render with a Clerk user: syncUserWithSupabase is awaited
refetch ==
  /\ mounted
  /\ clerkUser # NULL
  /\ Cardinality(syncs) < MaxSyncs
  /\ syncs' = syncs \cup {[n |-> Cardinality(syncs) + 1, kind |-> "refetch",
                            phase |-> "await"]}
  /\ UNCHANGED <<storeVars, compVars, rtVars, roomVars, switches, errs,
                 sessions, memberOpCount, netFails, presVars, sweepVars,
                 tabJoins, clerkUser>>

\* what a run hands to setSupabaseUser: the record of the user it captured;
\* when the store failed, syncUser hands over null and refetch keeps the state
userRecord(y, failed) ==
  IF ~failed THEN Me
  ELSE IF y.kind = "sync" THEN NULL
  ELSE supabaseUser

\* a syncUser or refetch run is answered: setSupabaseUser(userRecord), with
\* the render and the effects that follow a change of the context value
SyncDone(y) ==
  /\ mounted
  /\ y \in syncs
  /\ y.phase = "await"
  /\ syncs' = (syncs \ {y}) \cup {[y EXCEPT !.phase = "done"]}
  /\ \E failed \in Failures :
       LET u == userRecord(y, failed)
       IN  IF u = supabaseUser
           THEN /\ errs' = IF failed THEN errs + 1 ELSE errs
                /\ UNCHANGED <<compVars, rtVars, roomVars, presence>>
           ELSE \E failAt \in IF failed THEN {0} ELSE SetupFailures :
                  /\ errs' = IF failed \/ failAt # 0 THEN errs + 1 ELSE errs
                  /\ Commit(u, roomId, failAt)
  /\ UNCHANGED <<storeVars, switches, sessions, memberOpCount,
                 netFails, dbSeen, onlineUsers, beats, sweepVars, tabJoins,
                 clerkUser>>

\* useChatRooms selectRoom / handleDeleteRoom: the selected room changes
SelectRoom(r) ==
  /\ mounted
  /\ r # roomId
  /\ switches < MaxSwitches
  /\ \E failAt \in IF supabaseUser = NULL THEN {0} ELSE SetupFailures :
       /\ Commit(supabaseUser, r, failAt)
       /\ errs' = IF failAt # 0 THEN errs + 1 ELSE errs
  /\ switches' = switches + 1
  /\ UNCHANGED <<storeVars, sessions, memberOpCount,
                 netFails, dbSeen, onlineUsers, beats, sweepVars, tabJoins, authVars>>

\* the ChatRoom component unmounts: the cleanups of its effects run
Unmount ==
  /\ mounted
  /\ mounted' = FALSE
  /\ subscriptions' = subscriptionCleanup.subscriptions
  /\ channels' = subscriptionCleanup.channels
  /\ intervals' = subscriptionCleanup.intervals
  /\ isSubscribed' = FALSE
  /\ feed' = LiveFeed(feed, subscriptionCleanup.channels)
  /\ resends' = cleanupResend(resends, roomId, supabaseUser, pendingMessages, roomExists)
  /\ UNCHANGED <<storeVars, supabaseUser, roomId, messages, rtError, epoch,
                 initFetches, loading, error, members, hasJoined,
                 pendingMessages, roomExists, sends, loads, memberOps, auxVars>>


\* ------------------------------------------------------------- change feed
NoRow == [id |-> 0, room_id |-> NULL, user_id |-> NULL, message |-> "", created_at |-> 0]

MemberRow(r, u) == [NoRow EXCEPT !.room_id = r, !.user_id = u]

\* the INSERT event of a chat_messages row, for every subscribed messages
\* channel (the channel of useChatRealtime.js has no filter)
MessageEvents(chans, d) ==
  {[chan |-> c, table |-> "chat_messages", eventType |-> "INSERT", row |-> d, n |-> 0] :
     c \in {c \in chans : c.kind = "messages"}}

\* the event of a chat_room_members change, for every subscribed members
\* channel whose filter (room_id=eq.roomId, or none) lets it through
MemberEvents(chans, type, r, u) ==
  {[chan |-> c, table |-> "chat_room_members", eventType |-> type,
    row |-> MemberRow(r, u), n |-> 0] :
     c \in {c \in chans : c.kind = "members" /\ (c.room = NULL \/ c.room = r)}}

\* the event of a change of last_seen_at, for every subscribed presence
\* channel
PresenceEvents(chans, u) ==
  {[chan |-> c, table |-> "users", eventType |-> "UPDATE",
    row |-> MemberRow(NULL, u), n |-> 0] :
     c \in {c \in chans : c.kind = "presence"}}

\* ------------------------------------------------------------- environment
\* time passes
Tick ==
  /\ now < MaxClock
  /\ now' = now + 1
  /\ UNCHANGED <<dbRooms, dbMessages, dbMembers, memberRows, rowCount, compVars, rtVars,
                 roomVars, auxVars>>

\* deleteChatRoom by some session: the messages, the memberships, the room
DeleteRoom(r) ==
  /\ r \in dbRooms
  /\ dbRooms' = dbRooms \ {r}
  /\ dbMessages' = SelectSeq(dbMessages, LAMBDA d : d.room_id # r)
  /\ dbMembers' = {m \in dbMembers : m[1] # r}
  /\ memberRows' = [k \in DOMAIN memberRows |->
                      IF k[1] = r THEN 0 ELSE memberRows[k]]
  /\ feed' = feed \cup UNION {MemberEvents(channels, "DELETE", m[1], m[2]) :
                                m \in {m \in dbMembers : m[1] = r}}
  /\ UNCHANGED <<rowCount, now, compVars, messages, isSubscribed, rtError,
                 subscriptions, channels, intervals, epoch, initFetches,
                 roomVars, auxVars>>

\* sendChatMessage by the other user's session
OtherSend(r, text) ==
  /\ rowCount < MaxRows
  /\ canAccessRoom(Other, r)
  /\ dbMessages' = Append(dbMessages, NewRow(Other, r, text))
  /\ rowCount' = rowCount + 1
  /\ feed' = feed \cup MessageEvents(channels, NewRow(Other, r, text))
  /\ UNCHANGED <<dbRooms, dbMembers, memberRows, now, compVars, messages, isSubscribed,
                 rtError, subscriptions, channels, intervals, epoch,
                 initFetches, roomVars, auxVars>>

\* the change feed carries an INSERT event of chat_messages whose payload
\* has no id
MalformedEvent(r, text) ==
  /\ ~\E e \in feed : e.table = "chat_messages" /\ e.row.id = MissingId
  /\ feed' = feed \cup
       MessageEvents(channels, [id |-> MissingId, room_id |-> r, user_id |-> Other,
                                message |-> text, created_at |-> now])
  /\ UNCHANGED <<storeVars, compVars, messages, isSubscribed, rtError,
                 subscriptions, channels, intervals, epoch, initFetches,
                 roomVars, auxVars>>

\* updateUserPresence by the other user's session
OtherSeen ==
  /\ dbSeen[Other] # SeenAt(now)
  /\ dbSeen' = [dbSeen EXCEPT ![Other] = SeenAt(now)]
  /\ feed' = feed \cup PresenceEvents(channels, Other)
  /\ UNCHANGED <<dbRooms, dbMessages, dbMembers, memberRows, rowCount, now, compVars,
                 messages, isSubscribed, rtError, subscriptions, channels,
                 intervals, epoch, initFetches, roomVars, switches, errs,
                 sessions, memberOpCount, netFails, onlineUsers, presence,
                 beats, sweepVars, tabJoins, authVars>>

\* -------------------------------------------------- useChatRealtime events
\* the messages channel delivers an INSERT event to handleNewMessage
LiveInsert(e) ==
  /\ mounted
  /\ e \in feed
  /\ e.table = "chat_messages"
  /\ e.n < MaxDeliver
  /\ IF /\ e.chan.room # NULL
        /\ payloadNew(e.row).room_id = e.chan.room
        /\ updateMessageListThrows(messages, payloadNew(e.row))
     THEN \* the updater throws while React renders; no error boundary
          \* catches it, so the tree unmounts and the cleanups run
          /\ mounted' = FALSE
          /\ subscriptions' = subscriptionCleanup.subscriptions
          /\ channels' = subscriptionCleanup.channels
          /\ intervals' = subscriptionCleanup.intervals
          /\ isSubscribed' = FALSE
          /\ feed' = LiveFeed((feed \ {e}) \cup {[e EXCEPT !.n = @ + 1]},
                              subscriptionCleanup.channels)
          /\ resends' = cleanupResend(resends, roomId, supabaseUser,
                                      pendingMessages, roomExists)
          /\ UNCHANGED messages
     ELSE /\ messages' = handleNewMessage(e.chan.room, messages, payloadNew(e.row))
          /\ feed' = (feed \ {e}) \cup {[e EXCEPT !.n = @ + 1]}
          /\ UNCHANGED <<mounted, subscriptions, channels, intervals,
                         isSubscribed, resends>>
  /\ UNCHANGED <<storeVars, supabaseUser, roomId, rtError, epoch, initFetches,
                 loading, error, members, hasJoined, pendingMessages,
                 roomExists, sends, loads, memberOps, auxVars>>

\* the history fetch started by the subscription effect for room r resolves
InitFetchResolve(r) ==
  /\ mounted
  /\ initFetches[r] > 0
  /\ initFetches' = Drop(initFetches, r)
  /\ \E failed \in Failures :
       /\ errs' = IF failed THEN errs + 1 ELSE errs
       /\ IF failed
          THEN /\ rtError' = "fetch"
               /\ UNCHANGED messages
          ELSE /\ messages' = IF Len(fetchChatMessages(r)) > 0
                              THEN fetchChatMessages(r) ELSE messages
               /\ UNCHANGED rtError
  /\ UNCHANGED <<storeVars, compVars, isSubscribed, subscriptions, channels,
                 intervals, epoch, feed, roomVars, switches, sessions,
                 memberOpCount,
                 netFails, presVars, sweepVars, tabJoins, authVars>>

\* a handler that flips the flag on every membership event
handleMembershipChangeToggle(e, joined) == ~joined

\* handleMembershipChange, the flag: a DELETE of the user's own row in the
\* room of the closure clears hasJoined; any other event leaves it
handleMembershipChange(e, joined) ==
  IF /\ e.eventType = "DELETE"
     /\ e.row.user_id = Me
     /\ e.row.room_id = e.chan.room
  THEN FALSE ELSE joined

\* the members channel delivers an event to handleMembershipChange of
\* useChatRoom (through handleMembershipChange of useChatRealtime)
MembershipEvent(e) ==
  /\ mounted
  /\ e \in feed
  /\ e.table = "chat_room_members"
  /\ e.n < MaxDeliver
  /\ feed' = (feed \ {e}) \cup {[e EXCEPT !.n = @ + 1]}
  \* loadMembers() of the closure: returns at once without a roomId
  /\ loads' = IF e.chan.room # NULL THEN Bump(loads, <<e.chan.room, "mbCheck">>)
              ELSE loads
  /\ hasJoined' = handleMembershipChange(e, hasJoined)
  /\ UNCHANGED <<storeVars, compVars, messages, isSubscribed, rtError,
                 subscriptions, channels, intervals, epoch, initFetches,
                 loading, error, members, pendingMessages, roomExists, sends,
                 resends, memberOps, auxVars>>


\* ------------------------------------------------ useChatRealtime: presence
\* a presence timer that is still active fires: updatePresence()
Heartbeat ==
  /\ intervals # {}
  /\ beats < MaxBeats
  /\ beats' = beats + 1
  /\ presence' = Bump(presence, "update")
  /\ UNCHANGED <<storeVars, compVars, rtVars, roomVars, switches, errs,
                 sessions, memberOpCount, netFails, dbSeen, onlineUsers,
                 sweepVars, tabJoins, authVars>>

\* updatePresence after updateUserPresence, which logs its failures and
\* never throws: await fetchOnlineUsers()
PresenceUpdateDone ==
  /\ presence["update"] > 0
  /\ presence' = Bump(Drop(presence, "update"), "fetch")
  /\ \E failed \in Failures :
       /\ errs' = IF failed THEN errs + 1 ELSE errs
       /\ IF failed
          THEN UNCHANGED <<dbSeen, feed>>
          ELSE /\ dbSeen' = updateUserPresence(Me)
               /\ feed' = feed \cup PresenceEvents(channels, Me)
  /\ UNCHANGED <<dbRooms, dbMessages, dbMembers, memberRows, rowCount, now, compVars,
                 messages, isSubscribed, rtError, subscriptions, channels,
                 intervals, epoch, initFetches, roomVars, switches, sessions,
                 memberOpCount, netFails, onlineUsers, beats, sweepVars, tabJoins, authVars>>

\* the presence channel delivers an event to handlePresenceChange:
\* fetchOnlineUsers()
PresenceEvent(e) ==
  /\ mounted
  /\ e \in feed
  /\ e.table = "users"
  /\ e.n < MaxDeliver
  /\ feed' = (feed \ {e}) \cup {[e EXCEPT !.n = @ + 1]}
  /\ presence' = Bump(presence, "fetch")
  /\ UNCHANGED <<storeVars, compVars, messages, isSubscribed, rtError,
                 subscriptions, channels, intervals, epoch, initFetches,
                 roomVars, switches, errs, sessions, memberOpCount, netFails,
                 dbSeen, onlineUsers, beats, sweepVars, tabJoins, authVars>>

\* fetchOnlineUsers after its query: a failed query is logged and nothing
\* is published; otherwise setOnlineUsers
PresenceFetchDone ==
  /\ mounted
  /\ presence["fetch"] > 0
  /\ presence' = Drop(presence, "fetch")
  /\ \E failed \in Failures :
       /\ errs' = IF failed THEN errs + 1 ELSE errs
       /\ onlineUsers' = IF failed THEN onlineUsers
                         ELSE fetchOnlineUsers(Me, OnlineRows(now))
  /\ UNCHANGED <<storeVars, compVars, rtVars, roomVars, switches, sessions,
                 memberOpCount, netFails, dbSeen, beats, sweepVars, tabJoins, authVars>>

\* ------------------------------------------------- useChatRoom: load chain
\* The answer to the existence check of the load effect for room r:
\* setRoomExists(exists), then loadMessages() and loadMembers(), each of
\* which starts with its own existence check.
EffCheckDone(r) ==
  /\ mounted
  /\ loads[<<r, "effCheck">>] > 0
  /\ \E failed \in Failures :
       LET exists == checkRoomExists(r, failed)
           lds0   == Drop(loads, <<r, "effCheck">>)
           lds1   == IF exists
                     THEN Bump(Bump(lds0, <<r, "lmCheck">>), <<r, "mbCheck">>)
                     ELSE lds0
           eff    == rerunLoadEffect(exists, FALSE, resends, lds1)
       IN  /\ (failed => r \in dbRooms)
           /\ errs' = IF failed THEN errs + 1 ELSE errs
           /\ roomExists' = exists
           /\ loads' = eff.loads
           /\ resends' = eff.resends
  /\ UNCHANGED <<storeVars, compVars, rtVars, loading, error, members,
                 hasJoined, pendingMessages, sends, memberOps, switches,
                 sessions, memberOpCount,
                 netFails, presVars, sweepVars, tabJoins, authVars>>

\* loadMessages after its existence check: setLoading(true) and the fetch,
\* or the return through finally { setLoading(false) }
LmCheckDone(r) ==
  /\ mounted
  /\ loads[<<r, "lmCheck">>] > 0
  /\ \E failed \in Failures :
       LET exists == checkRoomExists(r, failed)
           lds0   == Drop(loads, <<r, "lmCheck">>)
           lds1   == IF exists THEN Bump(lds0, <<r, "lmFetch">>) ELSE lds0
           eff    == rerunLoadEffect(exists, FALSE, resends, lds1)
       IN  /\ (failed => r \in dbRooms)
           /\ errs' = IF failed THEN errs + 1 ELSE errs
           /\ roomExists' = exists
           /\ loading' = exists
           /\ loads' = eff.loads
           /\ resends' = eff.resends
  /\ UNCHANGED <<storeVars, compVars, rtVars, error, members, hasJoined,
                 pendingMessages, sends, memberOps, switches, sessions,
                 memberOpCount,
                 netFails, presVars, sweepVars, tabJoins, authVars>>

\* loadMessages after fetchChatMessages: every fetched message goes through
\* addLocalMessage; catch sets the error; finally { setLoading(false) }
LmFetchDone(r) ==
  /\ mounted
  /\ loads[<<r, "lmFetch">>] > 0
  /\ loads' = Drop(loads, <<r, "lmFetch">>)
  /\ loading' = FALSE
  /\ \E failed \in Failures :
       /\ errs' = IF failed THEN errs + 1 ELSE errs
       /\ IF failed
          THEN /\ error' = "fetch"
               /\ UNCHANGED messages
          ELSE /\ error' = NULL
               /\ messages' = addEach(messages, fetchChatMessages(r))
  /\ UNCHANGED <<storeVars, compVars, isSubscribed, rtError, subscriptions,
                 channels, intervals, epoch, feed, initFetches, members,
                 hasJoined, pendingMessages, roomExists, sends, resends,
                 memberOps, switches, sessions, memberOpCount,
                 netFails, presVars, sweepVars, tabJoins, authVars>>

\* loadMembers after its existence check
MbCheckDone(r) ==
  /\ mounted
  /\ loads[<<r, "mbCheck">>] > 0
  /\ \E failed \in Failures :
       LET exists == checkRoomExists(r, failed)
           lds0   == Drop(loads, <<r, "mbCheck">>)
           lds1   == IF exists THEN Bump(lds0, <<r, "mbFetch">>) ELSE lds0
           eff    == rerunLoadEffect(exists, FALSE, resends, lds1)
       IN  /\ (failed => r \in dbRooms)
           /\ errs' = IF failed THEN errs + 1 ELSE errs
           /\ roomExists' = exists
           /\ loads' = eff.loads
           /\ resends' = eff.resends
  /\ UNCHANGED <<storeVars, compVars, rtVars, loading, error, members,
                 hasJoined, pendingMessages, sends, memberOps, switches,
                 sessions, memberOpCount,
                 netFails, presVars, sweepVars, tabJoins, authVars>>

\* a getChatRoomMembers without the room_id filter and over all users
getChatRoomMembersUnfiltered(r) == Users

\* getChatRoomMembers: the users of the rows of room r
getChatRoomMembers(r) == {m[2] : m \in {m \in dbMembers : m[1] = r}}

\* loadMembers after getChatRoomMembers: setMembers, setHasJoined; a failure
\* is only logged
MbFetchDone(r) ==
  /\ mounted
  /\ loads[<<r, "mbFetch">>] > 0
  /\ loads' = Drop(loads, <<r, "mbFetch">>)
  /\ \E failed \in Failures :
       /\ errs' = IF failed THEN errs + 1 ELSE errs
       /\ IF failed
          THEN UNCHANGED <<members, hasJoined>>
          ELSE /\ members' = getChatRoomMembers(r)
               /\ hasJoined' = (Me \in getChatRoomMembers(r))
  /\ UNCHANGED <<storeVars, compVars, rtVars, loading, error, pendingMessages,
                 roomExists, sends, resends, memberOps, switches, sessions,
                 memberOpCount,
                 netFails, presVars, sweepVars, tabJoins, authVars>>


\* ------------------------------------------ useChatRooms and ChatProvider
\* fetchChatRooms: the public rooms, the private rooms the user created and
\* the private rooms the user is a member of
fetchChatRooms(u) ==
  {r \in dbRooms : ~IsPrivate(r) \/ CreatedBy(r) = u \/ <<r, u>> \in dbMembers}

\* an isRoomEmpty that does not count the local user among the online users
isRoomEmptyIgnoringSelf(r, online, failed) ==
  /\ online # {}
  /\ ~failed
  /\ getChatRoomMembers(r) \cap (online \ {Me}) = {}

\* isRoomEmpty: false without online users or when the read of the members
\* failed; true when the room has no member or none of them is online
isRoomEmpty(r, online, failed) ==
  /\ online # {}
  /\ ~failed
  /\ getChatRoomMembers(r) \cap online = {}

\* loadRooms answers: setRooms, or the error is recorded and the list stays
LoadRoomsDone ==
  /\ supabaseUser # NULL
  /\ \E failed \in Failures :
       /\ errs' = IF failed THEN errs + 1 ELSE errs
       /\ rooms' = IF failed THEN rooms ELSE fetchChatRooms(supabaseUser)
       /\ (failed \/ rooms # fetchChatRooms(supabaseUser))
  /\ UNCHANGED <<storeVars, compVars, rtVars, roomVars, switches, sessions,
                 memberOpCount, netFails, presVars, sweeps, sweepCount, tabJoins, authVars>>

\* fetchOnlineUsers of the useChatRealtime instance of ChatProvider answers:
\* handleOnlineUsersChange hands the snapshot to checkAndDeleteEmptyRooms,
\* which returns at once without rooms, without online users or when the
\* local user is not among them.  rows keeps what the query returned.
ProviderFetchDone ==
  /\ supabaseUser # NULL
  /\ sweepCount < MaxSweeps
  /\ sweepCount' = sweepCount + 1
  /\ \E failed \in Failures :
       LET online == fetchOnlineUsers(supabaseUser, OnlineRows(now))
       IN  /\ errs' = IF failed THEN errs + 1 ELSE errs
           /\ sweeps' = IF ~failed /\ rooms # {} /\ online # {}
                            /\ supabaseUser \in online
                         THEN sweeps \cup
                                {[n |-> sweepCount + 1, rows |-> OnlineRows(now),
                                  online |-> online, todo |-> rooms,
                                  selectedRoomId |-> roomId]}
                         ELSE sweeps
  /\ UNCHANGED <<storeVars, compVars, rtVars, roomVars, switches, sessions,
                 memberOpCount, netFails, presVars, rooms, tabJoins, authVars>>

\* one round of the loop of checkAndDeleteEmptyRooms for room r: the
\* selected room is skipped; isRoomEmpty, then handleDeleteRoom, whose
\* deleteChatRoom deletes the messages, the memberships and the room
SweepRoom(w, r) ==
  /\ w \in sweeps
  /\ r \in w.todo
  /\ sweeps' = (sweeps \ {w}) \cup {[w EXCEPT !.todo = @ \ {r}]}
  /\ \E failed \in IF r = w.selectedRoomId THEN {FALSE} ELSE Failures :
       /\ errs' = IF failed THEN errs + 1 ELSE errs
       /\ IF r # w.selectedRoomId /\ isRoomEmpty(r, w.online, failed)
          THEN /\ dbRooms' = dbRooms \ {r}
               /\ dbMessages' = SelectSeq(dbMessages, LAMBDA d : d.room_id # r)
               /\ dbMembers' = {m \in dbMembers : m[1] # r}
               /\ memberRows' = [k \in DOMAIN memberRows |->
                                   IF k[1] = r THEN 0 ELSE memberRows[k]]
               /\ feed' = feed \cup
                    UNION {MemberEvents(channels, "DELETE", m[1], m[2]) :
                             m \in {m \in dbMembers : m[1] = r}}
               /\ rooms' = rooms \ {r}
          ELSE UNCHANGED <<dbRooms, dbMessages, dbMembers, memberRows, feed, rooms>>
  /\ UNCHANGED <<rowCount, now, compVars, messages, isSubscribed, rtError,
                 subscriptions, channels, intervals, epoch, initFetches,
                 roomVars, switches, sessions, memberOpCount, netFails,
                 presVars, sweepCount, tabJoins, authVars>>

\* ------------------------------------------------- useChatRoom: sendMessage
\* sendMessage(text) with a non-blank text: the call starts with
\* checkRoomExists.  absent and notFound record whether the room was missing
\* from the store, and roomExists false, when the call was made.
SendMessage(text) ==
  /\ mounted
  /\ roomId # NULL
  /\ supabaseUser # NULL
  /\ Cardinality(sends) < MaxSends
  /\ sends' = sends \cup
       {[n |-> Cardinality(sends) + 1, room |-> roomId, text |-> text,
         phase |-> "check", t |-> 0, row |-> NoRow,
         absent |-> roomId \notin dbRooms, notFound |-> ~roomExists]}
  /\ UNCHANGED <<storeVars, compVars, rtVars, loading, error, members,
                 hasJoined, pendingMessages, roomExists, loads, resends,
                 memberOps, auxVars>>

\* sendMessage after its existence check: return, or add the provisional
\* message to pendingMessages and to the list and call sendChatMessage
SendCheckDone(s) ==
  /\ mounted
  /\ s \in sends
  /\ s.phase = "check"
  /\ \E failed \in Failures :
       LET exists == checkRoomExists(s.room, failed)
           eff    == rerunLoadEffect(exists, exists, resends, loads)
       IN  /\ (failed => s.room \in dbRooms)
           /\ errs' = IF failed THEN errs + 1 ELSE errs
           /\ roomExists' = exists
           /\ loads' = eff.loads
           /\ resends' = eff.resends
           /\ IF exists
              THEN /\ pendingMessages' =
                        Append(pendingMessages, [id |-> TempId(now), text |-> s.text])
                   /\ messages' = addLocalMessage(messages,
                                     tempMessage(s.room, Me, s.text, now))
                   /\ sends' = (sends \ {s}) \cup
                                 {[s EXCEPT !.phase = "write", !.t = now]}
              ELSE /\ sends' = (sends \ {s}) \cup {[s EXCEPT !.phase = "returned"]}
                   /\ UNCHANGED <<pendingMessages, messages>>
  /\ UNCHANGED <<storeVars, compVars, isSubscribed, rtError, subscriptions,
                 channels, intervals, epoch, feed, initFetches, loading,
                 error, members, hasJoined, memberOps, switches, sessions,
                 memberOpCount,
                 netFails, presVars, sweepVars, tabJoins, authVars>>

\* sendChatMessage of call s at the store: the row is inserted
SendWrite(s) ==
  /\ s \in sends
  /\ s.phase = "write"
  /\ canAccessRoom(Me, s.room)
  /\ rowCount < MaxRows
  /\ dbMessages' = Append(dbMessages, NewRow(Me, s.room, s.text))
  /\ rowCount' = rowCount + 1
  /\ feed' = feed \cup MessageEvents(channels, NewRow(Me, s.room, s.text))
  /\ sends' = (sends \ {s}) \cup
                {[s EXCEPT !.phase = "resp", !.row = NewRow(Me, s.room, s.text)]}
  /\ UNCHANGED <<dbRooms, dbMembers, memberRows, now, compVars, messages, isSubscribed,
                 rtError, subscriptions, channels, intervals, epoch,
                 initFetches, loading, error, members, hasJoined,
                 pendingMessages, roomExists, loads, resends, memberOps,
                 auxVars>>

\* a catch block that rolls the optimistic update back: the provisional
\* message leaves the list and the pending messages
SendFailRollback(s) ==
  /\ mounted
  /\ s \in sends
  /\ s.phase = "write"
  /\ \/ /\ ~canAccessRoom(Me, s.room)
        /\ error' = "denied"
        /\ UNCHANGED errs
     \/ /\ canAccessRoom(Me, s.room)
        /\ TRUE \in Failures
        /\ errs' = errs + 1
        /\ error' = "send"
  /\ sends' = (sends \ {s}) \cup {[s EXCEPT !.phase = "failed"]}
  /\ messages' = SelectSeq(messages, LAMBDA m : m.id # TempId(s.t))
  /\ pendingMessages' = SelectSeq(pendingMessages, LAMBDA p : p.id # TempId(s.t))
  /\ UNCHANGED <<storeVars, compVars, isSubscribed, rtError, subscriptions,
                 channels, intervals, epoch, feed, initFetches, loading,
                 members, hasJoined, roomExists, loads, resends, memberOps,
                 switches, sessions, memberOpCount, netFails, presVars, sweepVars, tabJoins, authVars>>

\* sendChatMessage of call s throws (no access to the room, or the insert
\* failed): catch sets the error, the provisional message stays
SendFail(s) ==
  /\ mounted
  /\ s \in sends
  /\ s.phase = "write"
  /\ \/ /\ ~canAccessRoom(Me, s.room)
        /\ error' = "denied"
        /\ UNCHANGED errs
     \/ /\ canAccessRoom(Me, s.room)
        /\ TRUE \in Failures
        /\ errs' = errs + 1
        /\ error' = "send"
  /\ sends' = (sends \ {s}) \cup {[s EXCEPT !.phase = "failed"]}
  /\ UNCHANGED <<storeVars, compVars, rtVars, loading, members, hasJoined,
                 pendingMessages, roomExists, loads, resends, memberOps,
                 switches, sessions, memberOpCount,
                 netFails, presVars, sweepVars, tabJoins, authVars>>

\* sendMessage after sendChatMessage returned the row: the row goes through
\* addLocalMessage and the temp id leaves pendingMessages
SendResp(s) ==
  /\ mounted
  /\ s \in sends
  /\ s.phase = "resp"
  /\ LET eff == rerunLoadEffect(roomExists, TRUE, resends, loads)
     IN  /\ loads' = eff.loads
         /\ resends' = eff.resends
  /\ messages' = addLocalMessage(messages, realMessage(s.row, Me))
  /\ pendingMessages' = SelectSeq(pendingMessages, LAMBDA p : p.id # TempId(s.t))
  /\ sends' = (sends \ {s}) \cup {[s EXCEPT !.phase = "done"]}
  /\ UNCHANGED <<storeVars, compVars, isSubscribed, rtError, subscriptions,
                 channels, intervals, epoch, feed, initFetches, loading,
                 error, members, hasJoined, roomExists, memberOps, auxVars>>

\* a sendChatMessage(user, r, text) of the load effect cleanup at the store:
\* the row is inserted, or the call throws and the cleanup logs it
ResendWrite(r, text) ==
  /\ resends[<<r, text>>] > 0
  /\ resends' = Drop(resends, <<r, text>>)
  /\ IF canAccessRoom(Me, r)
     THEN /\ rowCount < MaxRows
          /\ dbMessages' = Append(dbMessages, NewRow(Me, r, text))
          /\ rowCount' = rowCount + 1
          /\ feed' = feed \cup MessageEvents(channels, NewRow(Me, r, text))
     ELSE UNCHANGED <<dbMessages, rowCount, feed>>
  /\ UNCHANGED <<dbRooms, dbMembers, memberRows, now, compVars, messages, isSubscribed,
                 rtError, subscriptions, channels, intervals, epoch,
                 initFetches, loading, error, members, hasJoined,
                 pendingMessages, roomExists, sends, loads, memberOps,
                 auxVars>>


\* ---------------------------------------- useChatRoom: joinRoom, leaveRoom
\* joinRoom() or leaveRoom(): the call starts with checkRoomExists
MemberOpStart(op) ==
  /\ mounted
  /\ roomId # NULL
  /\ supabaseUser # NULL
  /\ memberOpCount < MaxMemberOps
  /\ memberOpCount' = memberOpCount + 1
  /\ memberOps' = memberOps \cup
       {[n |-> memberOpCount + 1, op |-> op, room |-> roomId, phase |-> "check",
         absent |-> roomId \notin dbRooms, notFound |-> ~roomExists]}
  /\ UNCHANGED <<storeVars, compVars, rtVars, loading, error, members,
                 hasJoined, pendingMessages, roomExists, sends, loads,
                 resends, switches, errs, sessions,
                 netFails, presVars, sweepVars, tabJoins, authVars>>

joinRoom == MemberOpStart("join")

leaveRoom == MemberOpStart("leave")

\* joinRoom / leaveRoom after the existence check: setLoading(true) and the
\* write, or the return through finally { setLoading(false) }
MemberOpCheckDone(m) ==
  /\ mounted
  /\ m \in memberOps
  /\ m.phase = "check"
  /\ \E failed \in Failures :
       LET exists == checkRoomExists(m.room, failed)
           eff    == rerunLoadEffect(exists, FALSE, resends, loads)
       IN  /\ (failed => m.room \in dbRooms)
           /\ errs' = IF failed THEN errs + 1 ELSE errs
           /\ roomExists' = exists
           /\ loading' = exists
           /\ loads' = eff.loads
           /\ resends' = eff.resends
           /\ memberOps' = (memberOps \ {m}) \cup
                {[m EXCEPT !.phase = IF exists THEN "write" ELSE "returned"]}
  /\ UNCHANGED <<storeVars, compVars, rtVars, error, members, hasJoined,
                 pendingMessages, sends, switches, sessions, memberOpCount,
                 netFails, presVars, sweepVars, tabJoins, authVars>>

\* joinChatRoom: what the call does to chat_room_members, or "denied" /
\* "notfound" when it throws
joinChatRoom(u, r) ==
  IF r \notin dbRooms THEN "notfound"
  ELSE IF IsPrivate(r) /\ CreatedBy(r) # u THEN "denied"
  ELSE IF <<r, u>> \in dbMembers THEN "existing"
  ELSE "insert"

\* joinRoom after joinChatRoom: setHasJoined(true) and await loadMembers(),
\* or catch { setError } finally { setLoading(false) }
JoinWrite(m) ==
  /\ mounted
  /\ m \in memberOps
  /\ m.phase = "write"
  /\ m.op = "join"
  /\ LET out == joinChatRoom(Me, m.room)
     IN  IF out \in {"notfound", "denied"}
         THEN /\ error' = out
              /\ loading' = FALSE
              /\ memberOps' = (memberOps \ {m}) \cup {[m EXCEPT !.phase = "failed"]}
              /\ UNCHANGED <<dbMembers, memberRows, feed, hasJoined>>
         ELSE /\ dbMembers' = dbMembers \cup {<<m.room, Me>>}
              /\ memberRows' = IF out = "insert"
                               THEN insertMember(memberRows, m.room, Me)
                               ELSE memberRows
              /\ feed' = IF out = "insert"
                         THEN feed \cup MemberEvents(channels, "INSERT", m.room, Me)
                         ELSE feed
              /\ hasJoined' = TRUE
              /\ memberOps' = (memberOps \ {m}) \cup {[m EXCEPT !.phase = "mbCheck"]}
              /\ UNCHANGED <<error, loading>>
  /\ UNCHANGED <<dbRooms, dbMessages, rowCount, now, compVars, messages,
                 isSubscribed, rtError, subscriptions, channels, intervals,
                 epoch, initFetches, members, pendingMessages, roomExists,
                 sends, loads, resends, auxVars>>

\* leaveChatRoom: the membership row of the user in the room is deleted
leaveChatRoom(u, r) == dbMembers \ {<<r, u>>}

\* leaveRoom after leaveChatRoom: setHasJoined(false) and await loadMembers()
LeaveWrite(m) ==
  /\ mounted
  /\ m \in memberOps
  /\ m.phase = "write"
  /\ m.op = "leave"
  /\ dbMembers' = leaveChatRoom(Me, m.room)
  /\ memberRows' = [memberRows EXCEPT ![<<m.room, Me>>] = 0]
  /\ feed' = IF <<m.room, Me>> \in dbMembers
             THEN feed \cup MemberEvents(channels, "DELETE", m.room, Me)
             ELSE feed
  /\ hasJoined' = FALSE
  /\ memberOps' = (memberOps \ {m}) \cup {[m EXCEPT !.phase = "mbCheck"]}
  /\ UNCHANGED <<dbRooms, dbMessages, rowCount, now, compVars, messages,
                 isSubscribed, rtError, subscriptions, channels, intervals,
                 epoch, initFetches, loading, error, members, pendingMessages,
                 roomExists, sends, loads, resends, auxVars>>

\* the awaited loadMembers() of joinRoom / leaveRoom after its existence
\* check; when the room is gone loadMembers returns and finally runs
MemberOpMbCheckDone(m) ==
  /\ mounted
  /\ m \in memberOps
  /\ m.phase = "mbCheck"
  /\ \E failed \in Failures :
       LET exists == checkRoomExists(m.room, failed)
           eff    == rerunLoadEffect(exists, FALSE, resends, loads)
       IN  /\ (failed => m.room \in dbRooms)
           /\ errs' = IF failed THEN errs + 1 ELSE errs
           /\ roomExists' = exists
           /\ loading' = IF exists THEN loading ELSE FALSE
           /\ loads' = eff.loads
           /\ resends' = eff.resends
           /\ memberOps' = (memberOps \ {m}) \cup
                {[m EXCEPT !.phase = IF exists THEN "mbFetch" ELSE "done"]}
  /\ UNCHANGED <<storeVars, compVars, rtVars, error, members, hasJoined,
                 pendingMessages, sends, switches, sessions, memberOpCount,
                 netFails, presVars, sweepVars, tabJoins, authVars>>

\* the awaited loadMembers() after getChatRoomMembers, then
\* finally { setLoading(false) }
MemberOpMbFetchDone(m) ==
  /\ mounted
  /\ m \in memberOps
  /\ m.phase = "mbFetch"
  /\ memberOps' = (memberOps \ {m}) \cup {[m EXCEPT !.phase = "done"]}
  /\ loading' = FALSE
  /\ \E failed \in Failures :
       /\ errs' = IF failed THEN errs + 1 ELSE errs
       /\ IF failed
          THEN UNCHANGED <<members, hasJoined>>
          ELSE /\ members' = getChatRoomMembers(m.room)
               /\ hasJoined' = (Me \in getChatRoomMembers(m.room))
  /\ UNCHANGED <<storeVars, compVars, rtVars, error, pendingMessages,
                 roomExists, sends, loads, resends, switches, sessions,
                 memberOpCount,
                 netFails, presVars, sweepVars, tabJoins, authVars>>

\* --------------------------------------------------------------- behaviour
\* --------------------------- joinChatRoom called by another session of Me
\* joinChatRoom up to its first await: getChatRoomDetails answers, a missing
\* room or a private room of another creator throws
TabJoinDetails(r) ==
  /\ Cardinality(tabJoins) < MaxTabJoins
  /\ tabJoins' = tabJoins \cup
       {[n |-> Cardinality(tabJoins) + 1, room |-> r,
         phase |-> IF r \notin dbRooms \/ (IsPrivate(r) /\ CreatedBy(r) # Me)
                   THEN "thrown" ELSE "select"]}
  /\ UNCHANGED <<storeVars, compVars, rtVars, roomVars, switches, errs,
                 sessions, memberOpCount, netFails, presVars, sweepVars, authVars>>

\* the select of the existing membership answers: an existing row is returned
TabJoinSelect(j) ==
  /\ j \in tabJoins
  /\ j.phase = "select"
  /\ tabJoins' = (tabJoins \ {j}) \cup
       {[j EXCEPT !.phase = IF memberRows[<<j.room, Me>>] > 0
                            THEN "existing" ELSE "insert"]}
  /\ UNCHANGED <<storeVars, compVars, rtVars, roomVars, switches, errs,
                 sessions, memberOpCount, netFails, presVars, sweepVars, authVars>>

\* the insert answers: the row is written and published, or the store
\* rejects it (the room is gone, or the pair is there) and the call throws
TabJoinInsert(j) ==
  /\ j \in tabJoins
  /\ j.phase = "insert"
  /\ LET rowsOf == IF j.room \in dbRooms
                   THEN insertMember(memberRows, j.room, Me)
                   ELSE memberRows
         written == rowsOf # memberRows
     IN  /\ memberRows' = rowsOf
         /\ dbMembers' = IF written THEN dbMembers \cup {<<j.room, Me>>}
                         ELSE dbMembers
         /\ feed' = IF written
                    THEN feed \cup MemberEvents(channels, "INSERT", j.room, Me)
                    ELSE feed
         /\ tabJoins' = (tabJoins \ {j}) \cup
              {[j EXCEPT !.phase = IF written THEN "inserted" ELSE "thrown"]}
  /\ UNCHANGED <<dbRooms, dbMessages, rowCount, now, compVars, messages,
                 isSubscribed, rtError, subscriptions, channels, intervals,
                 epoch, initFetches, roomVars, switches, errs, sessions,
                 memberOpCount, netFails, presVars, sweepVars, authVars>>

Next ==
  \/ Tick
  \/ \E r \in Rooms : DeleteRoom(r)
  \/ \E r \in Rooms, text \in Texts : OtherSend(r, text)
  \/ Login
  \/ Logout
  \/ \E r \in Rooms \cup {NULL} : SelectRoom(r)
  \/ Unmount
  \/ \E e \in feed : LiveInsert(e)
  \/ \E e \in feed : MembershipEvent(e)
  \/ \E r \in Rooms : InitFetchResolve(r)
  \/ \E r \in Rooms : EffCheckDone(r)
  \/ \E r \in Rooms : LmCheckDone(r)
  \/ \E r \in Rooms : LmFetchDone(r)
  \/ \E r \in Rooms : MbCheckDone(r)
  \/ \E r \in Rooms : MbFetchDone(r)
  \/ \E text \in Texts : SendMessage(text)
  \/ \E s \in sends : SendCheckDone(s)
  \/ \E s \in sends : SendWrite(s)
  \/ \E s \in sends : SendFail(s)
  \/ \E s \in sends : SendResp(s)
  \/ \E r \in Rooms, text \in Texts : ResendWrite(r, text)
  \/ joinRoom
  \/ leaveRoom
  \/ \E m \in memberOps : MemberOpCheckDone(m)
  \/ \E m \in memberOps : JoinWrite(m)
  \/ \E m \in memberOps : LeaveWrite(m)
  \/ \E m \in memberOps : MemberOpMbCheckDone(m)
  \/ \E m \in memberOps : MemberOpMbFetchDone(m)
  \/ OtherSeen
  \/ Heartbeat
  \/ PresenceUpdateDone
  \/ \E e \in feed : PresenceEvent(e)
  \/ PresenceFetchDone
  \/ \E r \in Rooms, text \in Texts : MalformedEvent(r, text)
  \/ LoadRoomsDone
  \/ ProviderFetchDone
  \/ \E w \in sweeps, r \in Rooms : SweepRoom(w, r)
  \/ \E r \in Rooms : TabJoinDetails(r)
  \/ \E j \in tabJoins : TabJoinSelect(j)
  \/ \E j \in tabJoins : TabJoinInsert(j)
  \/ SignIn
  \/ refetch
  \/ \E y \in syncs : SyncDone(y)

\* the program under every behaviour of its environment
Spec == Init /\ [][Next]_vars


\* ---------------------------------------------------------------- scenarios
\* Each scenario is the program above under a restriction of its
\* environment: the user takes only some of the actions, some store
\* requests are never answered, or no request fails.  Every behaviour of a
\* scenario is a behaviour of Spec (up to the value of netFails).

MsgSends == 1      \* sendMessage calls of the scenarios other than SpecTwoSends
SubRows  == 1      \* messages of the other user in SpecSub

NoSendInFlight == \A s \in sends : s.phase \in {"done", "failed", "returned"}

NoCallInFlight ==
  /\ NoSendInFlight
  /\ \A m \in memberOps : m.phase \in {"done", "failed", "returned"}

\* One room: the user signs in, selects room A and sends one message at a
\* time; the history loads, the write, its echo on the live feed and the
\* re-sends of the load effect cleanup are answered; no request fails.
NextMsg ==
  \/ Login
  \/ (roomId = NULL /\ SelectRoom("A"))
  \/ \E e \in feed : LiveInsert(e)
  \/ \E r \in Rooms : InitFetchResolve(r)
  \/ \E r \in Rooms : EffCheckDone(r)
  \/ \E r \in Rooms : LmCheckDone(r)
  \/ \E r \in Rooms : LmFetchDone(r)
  \/ /\ Cardinality(sends) < MsgSends
     /\ NoSendInFlight
     /\ \E text \in Texts : SendMessage(text)
  \/ \E s \in sends : SendCheckDone(s)
  \/ \E s \in sends : SendWrite(s)
  \/ \E s \in sends : SendResp(s)
  \/ \E r \in Rooms, text \in Texts : ResendWrite(r, text)

SpecMsg == InitReliable /\ [][NextMsg]_vars

\* Ingestion: both users send into room A while the local user has it
\* selected; the history fetch of the subscription effect, the writes and
\* the live events (each up to MaxDeliver times) are answered, the load
\* chain of useChatRoom and the re-sends are not; no request fails.
NextIngest ==
  \/ Login
  \/ (roomId = NULL /\ SelectRoom("A"))
  \/ OtherSend("A", "a")
  \/ \E r \in Rooms : InitFetchResolve(r)
  \/ /\ Cardinality(sends) < MsgSends
     /\ NoSendInFlight
     /\ \E text \in Texts : SendMessage(text)
  \/ \E s \in sends : SendCheckDone(s)
  \/ \E s \in sends : SendWrite(s)
  \/ \E s \in sends : SendResp(s)
  \/ \E e \in feed : LiveInsert(e)

SpecIngest == InitReliable /\ [][NextIngest]_vars

\* Two sends: the user signs in, selects room A and sends up to MaxSends
\* messages, also while an earlier send is in flight; time passes.
NextTwoSends ==
  \/ Tick
  \/ Login
  \/ (roomId = NULL /\ SelectRoom("A"))
  \/ \E text \in Texts : SendMessage(text)
  \/ \E s \in sends : SendCheckDone(s)
  \/ \E s \in sends : SendWrite(s)
  \/ \E s \in sends : SendResp(s)
  \/ \E e \in feed : LiveInsert(e)

SpecTwoSends == InitReliable /\ [][NextTwoSends]_vars

\* The same with one text: the user sends "a" again and again while the
\* clock advances, before or after the echoes arrive; a call is made once
\* the existence check of the one before is answered, and every echo is
\* delivered once.
NextSameText ==
  \/ Tick
  \/ Login
  \/ (supabaseUser # NULL /\ roomId = NULL /\ SelectRoom("A"))
  \/ ((\A s \in sends : s.phase # "check") /\ SendMessage("a"))
  \/ \E s \in sends : SendCheckDone(s)
  \/ \E s \in sends : SendWrite(s)
  \/ \E s \in sends : SendResp(s)
  \/ \E e \in feed : e.n = 0 /\ LiveInsert(e)

SpecSameText == InitReliable /\ [][NextSameText]_vars

\* Room switches: the rooms hold messages of the other user when the local
\* user signs in and moves between the rooms while history loads are in
\* flight.
NextSwitch ==
  \/ (epoch = 0 /\ \E r \in Rooms, text \in Texts : OtherSend(r, text))
  \/ Login
  \/ \E r \in Rooms : SelectRoom(r)
  \/ \E r \in Rooms : InitFetchResolve(r)
  \/ \E r \in Rooms : EffCheckDone(r)
  \/ \E r \in Rooms : LmCheckDone(r)
  \/ \E r \in Rooms : LmFetchDone(r)

SpecSwitch == InitReliable /\ [][NextSwitch]_vars

\* Deleted room: rooms are deleted while the user selects a room and
\* sends, joins and leaves, one call at a time; no request fails.
NextRoom ==
  \/ Login
  \/ (roomId = NULL /\ \E r \in Rooms : SelectRoom(r))
  \/ \E r \in Rooms : DeleteRoom(r)
  \/ \E r \in Rooms : EffCheckDone(r)
  \/ (Cardinality(sends) < MsgSends /\ NoCallInFlight /\ SendMessage("a"))
  \/ \E s \in sends : SendCheckDone(s)
  \/ \E s \in sends : SendWrite(s)
  \/ \E s \in sends : SendFail(s)
  \/ \E s \in sends : SendResp(s)
  \/ (NoCallInFlight /\ joinRoom)
  \/ (NoCallInFlight /\ leaveRoom)
  \/ \E m \in memberOps : MemberOpCheckDone(m)
  \/ \E m \in memberOps : JoinWrite(m)
  \/ \E m \in memberOps : LeaveWrite(m)
  \/ \E m \in memberOps : MemberOpMbCheckDone(m)
  \/ \E m \in memberOps : MemberOpMbFetchDone(m)

SpecRoom == InitReliable /\ [][NextRoom]_vars

\* Failing requests: the same calls, also concurrently, over a network
\* whose requests can fail, while rooms are deleted.
NextFlaky ==
  \/ Login
  \/ (roomId = NULL /\ \E r \in Rooms : SelectRoom(r))
  \/ \E r \in Rooms : DeleteRoom(r)
  \/ \E r \in Rooms : EffCheckDone(r)
  \/ (Cardinality(sends) < MsgSends /\ SendMessage("a"))
  \/ \E s \in sends : SendCheckDone(s)
  \/ \E s \in sends : SendWrite(s)
  \/ \E s \in sends : SendFail(s)
  \/ \E s \in sends : SendResp(s)
  \/ joinRoom
  \/ leaveRoom
  \/ \E m \in memberOps : MemberOpCheckDone(m)
  \/ \E m \in memberOps : JoinWrite(m)
  \/ \E m \in memberOps : LeaveWrite(m)
  \/ \E m \in memberOps : MemberOpMbCheckDone(m)
  \/ \E m \in memberOps : MemberOpMbFetchDone(m)

SpecFlaky == Init /\ [][NextFlaky]_vars

\* Membership: the user selects room A, whose history holds a message of
\* theirs, and joins or leaves it, one call at a time; the membership
\* events of the writes are delivered up to MaxDeliver times and the member
\* refreshes they start are answered.
NextMember ==
  \/ Login
  \/ (roomId = NULL /\ SelectRoom("A"))
  \/ \E r \in Rooms : InitFetchResolve(r)
  \/ \E r \in Rooms : EffCheckDone(r)
  \/ \E r \in Rooms : MbCheckDone(r)
  \/ \E r \in Rooms : MbFetchDone(r)
  \/ (NoCallInFlight /\ joinRoom)
  \/ (NoCallInFlight /\ leaveRoom)
  \/ \E m \in memberOps : MemberOpCheckDone(m)
  \/ \E m \in memberOps : JoinWrite(m)
  \/ \E m \in memberOps : LeaveWrite(m)
  \/ \E m \in memberOps : MemberOpMbCheckDone(m)
  \/ \E m \in memberOps : MemberOpMbFetchDone(m)
  \/ \E e \in feed : MembershipEvent(e)

SpecMember == InitMember /\ [][NextMember]_vars

\* Subscription lifecycle: sign-in, sign-out, room switches, unmount and
\* failing setup, with a message of the other user on the live feed.
NextSub ==
  \/ Login
  \/ Logout
  \/ \E r \in Rooms \cup {NULL} : SelectRoom(r)
  \/ Unmount
  \/ (rowCount < SubRows /\ OtherSend("A", "a"))
  \/ \E e \in feed : LiveInsert(e)

SpecSub == Init /\ [][NextSub]_vars

\* One room over an unreliable store: a sendMessage call whose write is
\* answered by the row or fails.
NextSendFail ==
  \/ Login
  \/ (roomId = NULL /\ SelectRoom("A"))
  \/ \E r \in Rooms : EffCheckDone(r)
  \/ /\ Cardinality(sends) < MsgSends
     /\ NoSendInFlight
     /\ \E text \in Texts : SendMessage(text)
  \/ \E s \in sends : SendCheckDone(s)
  \/ \E s \in sends : SendWrite(s)
  \/ \E s \in sends : SendFail(s)
  \/ \E s \in sends : SendResp(s)

SpecSendFail == Init /\ [][NextSendFail]_vars

\* The private room B, of which the user is no member, over a reliable
\* store: sendMessage and joinRoom calls are refused by the service; the
\* user may send again and the component may unmount.
NextDenied ==
  \/ Login
  \/ (roomId = NULL /\ SelectRoom("B"))
  \/ \E r \in Rooms : EffCheckDone(r)
  \/ (NoSendInFlight /\ \E text \in Texts : SendMessage(text))
  \/ \E s \in sends : SendCheckDone(s)
  \/ \E s \in sends : SendFail(s)
  \/ \E r \in Rooms, text \in Texts : ResendWrite(r, text)
  \/ (NoCallInFlight /\ joinRoom)
  \/ \E m \in memberOps : MemberOpCheckDone(m)
  \/ \E m \in memberOps : JoinWrite(m)
  \/ Unmount

SpecDenied == InitReliable /\ [][NextDenied]_vars

\* Presence: the user signs in, which announces the presence and fetches
\* the snapshot; the timer fires, the other user is seen, time passes, the
\* presence channel delivers the changes; requests may fail.
NextPresence ==
  \/ Login
  \/ Tick
  \/ OtherSeen
  \/ Heartbeat
  \/ PresenceUpdateDone
  \/ \E e \in feed : PresenceEvent(e)
  \/ PresenceFetchDone

SpecPresence == InitPresence /\ [][NextPresence]_vars

\* The sweep of empty rooms: the user signs in and may select and join a
\* room, the room list loads, the presence of both users is announced or
\* not, and the snapshot of ChatProvider starts a sweep; requests may fail.
NextSweep ==
  \/ Login
  \/ (roomId = NULL /\ \E r \in Rooms : SelectRoom(r))
  \/ Tick
  \/ OtherSeen
  \/ PresenceUpdateDone
  \/ LoadRoomsDone
  \/ ProviderFetchDone
  \/ \E w \in sweeps, r \in Rooms : SweepRoom(w, r)

SpecSweep == InitSweep /\ [][NextSweep]_vars

\* the sweep over rooms in which the local user may hold a membership
NextSweepMember ==
  \/ Login
  \/ (roomId = NULL /\ \E r \in Rooms : SelectRoom(r))
  \/ LoadRoomsDone
  \/ ProviderFetchDone
  \/ \E w \in sweeps, r \in Rooms : SweepRoom(w, r)

SpecSweepMember == InitSweepMember /\ [][NextSweepMember]_vars

\* sign-in, sign-out and refetch against the answers of the user store, with
\* a room selected or not
NextAuth ==
  \/ SignIn
  \/ refetch
  \/ Logout
  \/ \E y \in syncs : SyncDone(y)
  \/ (roomId = NULL /\ \E r \in Rooms : SelectRoom(r))
  \/ OtherSend("A", "a")
  \/ \E r \in Rooms : InitFetchResolve(r)

SpecAuth == Init /\ [][NextAuth]_vars

\* joins and leaves of room A by two sessions of the local user
NextJoinRace ==
  \/ Login
  \/ (roomId = NULL /\ SelectRoom("A"))
  \/ \E r \in Rooms : EffCheckDone(r)
  \/ (NoCallInFlight /\ joinRoom)
  \/ (NoCallInFlight /\ leaveRoom)
  \/ \E m \in memberOps : MemberOpCheckDone(m)
  \/ \E m \in memberOps : JoinWrite(m)
  \/ \E m \in memberOps : LeaveWrite(m)
  \/ \E m \in memberOps : MemberOpMbCheckDone(m)
  \/ \E m \in memberOps : MemberOpMbFetchDone(m)
  \/ TabJoinDetails("A")
  \/ \E j \in tabJoins : TabJoinSelect(j)
  \/ \E j \in tabJoins : TabJoinInsert(j)

SpecJoinRace == InitMember /\ [][NextJoinRace]_vars

\* Two histories of one room: the other user writes into room A as time
\* passes, the local user selects it; the bulk fetch of the subscription
\* effect and the load chain of useChatRoom are answered in either order
NextOrder ==
  \/ Tick
  \/ OtherSend("A", "a")
  \/ Login
  \/ (roomId = NULL /\ SelectRoom("A"))
  \/ \E r \in Rooms : InitFetchResolve(r)
  \/ \E r \in Rooms : EffCheckDone(r)
  \/ \E r \in Rooms : LmCheckDone(r)
  \/ \E r \in Rooms : LmFetchDone(r)

SpecOrder == InitReliable /\ [][NextOrder]_vars

\* The load of a selected room: the user signs in and selects room A, which
\* another session may delete; the load effect, loadMessages, loadMembers,
\* joinRoom and leaveRoom run and overlap; a store request may fail
NextLoad ==
  \/ Login
  \/ (roomId = NULL /\ SelectRoom("A"))
  \/ DeleteRoom("A")
  \/ \E r \in Rooms : EffCheckDone(r)
  \/ \E r \in Rooms : LmCheckDone(r)
  \/ \E r \in Rooms : LmFetchDone(r)
  \/ \E r \in Rooms : MbCheckDone(r)
  \/ \E r \in Rooms : MbFetchDone(r)
  \/ joinRoom
  \/ leaveRoom
  \/ \E m \in memberOps : MemberOpCheckDone(m)
  \/ \E m \in memberOps : JoinWrite(m)
  \/ \E m \in memberOps : LeaveWrite(m)
  \/ \E m \in memberOps : MemberOpMbCheckDone(m)
  \/ \E m \in memberOps : MemberOpMbFetchDone(m)

\* every store request that is awaited is answered
Answered ==
  /\ \A r \in Rooms : WF_vars(EffCheckDone(r))
  /\ \A r \in Rooms : WF_vars(LmCheckDone(r))
  /\ \A r \in Rooms : WF_vars(LmFetchDone(r))
  /\ \A r \in Rooms : WF_vars(MbCheckDone(r))
  /\ \A r \in Rooms : WF_vars(MbFetchDone(r))
  /\ WF_vars(\E m \in memberOps : MemberOpCheckDone(m))
  /\ WF_vars(\E m \in memberOps : JoinWrite(m))
  /\ WF_vars(\E m \in memberOps : LeaveWrite(m))
  /\ WF_vars(\E m \in memberOps : MemberOpMbCheckDone(m))
  /\ WF_vars(\E m \in memberOps : MemberOpMbFetchDone(m))

\* the same program when every request is answered in the end
SpecLoad == Init /\ [][NextLoad]_vars /\ Answered

\* Room A with a change feed that also carries an INSERT event without an
\* id: the other user writes and the events are delivered; no request
\* fails.
NextMalformed ==
  \/ Login
  \/ (roomId = NULL /\ SelectRoom("A"))
  \/ OtherSend("A", "a")
  \/ \E text \in Texts : MalformedEvent("A", text)
  \/ \E e \in feed : LiveInsert(e)

SpecMalformed == InitReliable /\ [][NextMalformed]_vars


\* ===================================================================== claims
\* ------------------------------------- reconciliation (SpecMsg, SpecIngest)
\* C1: send/echo round trip: once sendMessage has added the provisional
\* message (and before the write reaches the store) the list holds exactly
\* one entry of the user with that text, and its id is a temp id; once the
\* durable echo has arrived (the returned row, or the live INSERT event) the
\* list holds exactly one entry of the user with that text, and it carries
\* the id of the row.
C1_SendEchoRoundTrip ==
  \A s \in sends :
    LET mine == {i \in DOMAIN messages :
                   /\ messages[i].message = s.text
                   /\ Me \in {messages[i].user_id, messages[i].users}}
        echoed == \/ s.phase = "done"
                  \/ /\ s.phase = "resp"
                     /\ \E e \in feed : e.row = s.row /\ e.n >= 1
    IN  /\ s.phase = "write" =>
             /\ Cardinality(mine) = 1
             /\ \A i \in mine : startsWithTemp(messages[i].id)
        /\ echoed =>
             /\ Cardinality(mine) = 1
             /\ \A i \in mine : messages[i].id = RowId(s.row.id)

\* C2: idempotent ingestion: from every reachable list, ingesting a message
\* twice (through addLocalMessage or through handleNewMessage) gives the
\* list that ingesting it once gives, for the provisional messages of the
\* user and for every shape (live payload, returned row, history row) of the
\* rows of the store and of rows the store does not hold; a row whose
\* INSERT event the live channel of the selected room has delivered twice is
\* in the list once.
C2_IdempotentIngestion ==
  LET stored == {dbMessages[i] : i \in DOMAIN dbMessages}
      rows   == stored \cup
                  {[id |-> MaxRows + 1, room_id |-> r, user_id |-> u,
                    message |-> x, created_at |-> 0] :
                     r \in Rooms, u \in Users, x \in Texts}
      cands  == {tempMessage("A", Me, x, t) : x \in Texts, t \in 0..MaxClock}
                  \cup {payloadNew(d) : d \in rows}
                  \cup {realMessage(d, d.user_id) : d \in rows}
                  \cup {historyMessage(d) : d \in rows}
  IN  /\ \A m \in cands :
           /\ addLocalMessage(addLocalMessage(messages, m), m)
                = addLocalMessage(messages, m)
           /\ handleNewMessage(roomId, handleNewMessage(roomId, messages, m), m)
                = handleNewMessage(roomId, messages, m)
      /\ \A e \in feed :
           (e.table = "chat_messages" /\ e.n >= 2 /\ e.row.room_id = e.chan.room) =>
             Cardinality({i \in DOMAIN messages : messages[i].id = RowId(e.row.id)}) = 1

\* the live channel has delivered the row of a finished send of the user
\* twice, into a list that also holds a message of the other user, and the
\* row is in the list once
C2_Witness ==
  \E s \in sends :
    /\ s.phase = "done"
    /\ \E e \in feed : e.row = s.row /\ e.n >= 2
    /\ Cardinality({i \in DOMAIN messages : messages[i].id = RowId(s.row.id)}) = 1
    /\ \E i \in DOMAIN messages : Other \in {messages[i].user_id, messages[i].users}

\* C3: order independence: when a send is done, its live echo has been
\* delivered and no history load, re-send or event is outstanding, the list
\* holds exactly one entry for the message (the provisional P or the durable
\* D), and it is the durable one.
C3_OrderIndependence ==
  \A s \in sends :
    LET entries == {i \in DOMAIN messages :
                      messages[i].id \in {TempId(s.t), RowId(s.row.id)}}
        settled == /\ s.phase = "done"
                   /\ \A r \in Rooms : initFetches[r] = 0
                   /\ \A r \in Rooms, ph \in {"effCheck", "lmCheck", "lmFetch"} :
                        loads[<<r, ph>>] = 0
                   /\ \A k \in DOMAIN resends : resends[k] = 0
                   /\ \A e \in feed : e.n >= 1
    IN  settled =>
          /\ Cardinality(entries) = 1
          /\ \A i \in entries : messages[i].id = RowId(s.row.id)

\* ------------------------------------------------- two sends (SpecTwoSends)
\* C6: distinct-content non-collision: while two sends with different texts
\* have both added their provisional message and neither write has reached
\* the store, the list holds two distinct provisional entries, one with each
\* text; and a send that is done has left the durable message with its own
\* text in the list.
C6_DistinctContent ==
  /\ \A s1, s2 \in sends :
       (s1.text # s2.text /\ s1.phase = "write" /\ s2.phase = "write") =>
         \E i, j \in DOMAIN messages :
           /\ i # j
           /\ startsWithTemp(messages[i].id) /\ messages[i].message = s1.text
           /\ startsWithTemp(messages[j].id) /\ messages[j].message = s2.text
  /\ \A s \in sends :
       s.phase = "done" =>
         \E i \in DOMAIN messages :
           messages[i].id = RowId(s.row.id) /\ messages[i].message = s.text

\* ------------------------------------------------ room switches (SpecSwitch)
\* C4: a history fetch (of the subscription effect, or of loadMessages) that
\* resolves for a room other than the selected one leaves the message list
\* as it is.
C4_StaleFetchDiscarded ==
  [][\A r \in Rooms :
       (/\ r # roomId
        /\ \/ initFetches'[r] < initFetches[r]
           \/ loads'[<<r, "lmFetch">>] < loads[<<r, "lmFetch">>])
       => messages' = messages]_vars

\* C5: selecting a room resets the room-scoped state: the step that changes
\* the selection to a room leaves the members empty, hasJoined false and the
\* pending set empty, and at every later point every message of the list is
\* a row of the selected room.
C5_SelectResets ==
  /\ []((roomId # NULL /\ supabaseUser # NULL) =>
          \A i \in DOMAIN messages :
            \E d \in DOMAIN dbMessages :
              /\ RowId(dbMessages[d].id) = messages[i].id
              /\ dbMessages[d].room_id = roomId)
  /\ [][(roomId' # roomId /\ roomId' # NULL) =>
          (members' = {} /\ ~hasJoined' /\ pendingMessages' = <<>>)]_vars

C8_NotFoundTerminal ==
  [][(~roomExists /\ roomId' = roomId) => ~roomExists']_vars

\* ------------------------------------------------------- subscriptions (SpecSub)
\* C9: the heartbeat interval is cleared on every teardown path: at most one
\* interval is active at any time, and none is active once the handles have
\* been reset (after sign-out, unmount or a failed setup).
C9_HeartbeatCleared ==
  /\ Cardinality(intervals) <= 1
  /\ (subscriptions.presenceInterval = NoHandle => intervals = {})

\* C10: no dangling subscriptions: the channels the realtime client holds are
\* exactly the handles of subscriptions.current, at most one per kind, all
\* created by the latest run of the subscription effect for the selected
\* room; none is held after unmount or while nobody is signed in; and every
\* event that can still be delivered belongs to one of these channels.
C10_NoDanglingSubscriptions ==
  /\ channels = {h \in Handles(subscriptions) : h.kind # "interval"}
  /\ \A c, d \in channels : c.kind = d.kind => c = d
  /\ \A c \in channels : c.room = roomId /\ c.ep = epoch
  /\ ((~mounted \/ supabaseUser = NULL) => channels = {})
  /\ \A e \in feed : e.chan \in channels /\ e.chan.room = roomId

\* the subscription effect has re-run for another room, three channels are
\* live, and the messages channel of the new run has delivered an event
C10_Witness ==
  /\ switches >= 1
  /\ epoch >= 2
  /\ roomId # NULL
  /\ Cardinality(channels) = 3
  /\ \E e \in feed : e.n >= 1 /\ e.chan.ep = epoch /\ e.chan.room = roomId

C12_SendGatedByJoined ==
  [][(~hasJoined /\ ~hasJoined') =>
       /\ \A i \in DOMAIN messages' :
            startsWithTemp(messages'[i].id) =>
              \E j \in DOMAIN messages : messages[j].id = messages'[i].id
       /\ \A d \in DOMAIN dbMessages' :
            dbMessages'[d].user_id = Me => d \in DOMAIN dbMessages]_vars

\* ------------------------------------------- membership events (SpecMember)
\* the latest joinRoom / leaveRoom call, once its write has succeeded and
\* the flag is set
SucceededOp(m) ==
  /\ m \in memberOps
  /\ m.n = memberOpCount
  /\ m.phase \in {"mbCheck", "mbFetch", "done"}

\* e is a membership-change event of the write of m
EventOf(e, m) ==
  /\ e.table = "chat_room_members"
  /\ e.row.user_id = Me
  /\ e.row.room_id = m.room
  /\ e.eventType = IF m.op = "join" THEN "INSERT" ELSE "DELETE"

\* no refresh of the member list is in flight
NoRefreshInFlight ==
  /\ \A r \in Rooms : loads[<<r, "mbCheck">>] = 0 /\ loads[<<r, "mbFetch">>] = 0
  /\ \A m \in memberOps : m.phase \in {"done", "failed", "returned"}

C14_SendFailureKeepsProvisional ==
  [][\A s \in sends :
       (s.phase = "write" /\ [s EXCEPT !.phase = "failed"] \in sends') =>
         /\ messages' = messages
         /\ pendingMessages' = pendingMessages
         /\ error' # NULL]_vars

C14_Witness ==
  \E s \in sends :
    /\ s.phase = "failed"
    /\ error = "send"
    /\ \E i \in DOMAIN messages : messages[i].id = TempId(s.t)
    /\ \E i \in DOMAIN pendingMessages : pendingMessages[i].id = TempId(s.t)

\* --------------------------------------------------- denied send (SpecDenied)
\* C15: after a sendMessage call was refused for want of access to the room,
\* no step makes the program call sendChatMessage again for that room and
\* text of its own accord.
C15_DeniedNotRetried ==
  [][\A s \in sends :
       (s.phase = "failed" /\ ~canAccessRoom(Me, s.room)) =>
         resends'[<<s.room, s.text>>] <= resends[<<s.room, s.text>>]]_vars

\* ------------------------------------------------- presence (SpecPresence)
\* a step in which fetchOnlineUsers publishes a snapshot
Publishes ==
  /\ presence'["fetch"] < presence["fetch"]
  /\ errs' = errs

\* C16: a user last seen exactly the threshold ago is not online and one
\* last seen a millisecond later is, both for isUserOnline with its default
\* timeout and for the snapshot that fetchOnlineUsers publishes.
C16_PresenceBoundary ==
  /\ [](\A u \in Users :
          /\ dbSeen[u] = SeenAt(now - DefaultTimeoutMinutes * MinuteMs) =>
               ~isUserOnline(dbSeen[u], DefaultTimeoutMinutes, now)
          /\ dbSeen[u] = SeenAt(now - DefaultTimeoutMinutes * MinuteMs + 1) =>
               isUserOnline(dbSeen[u], DefaultTimeoutMinutes, now))
  /\ [][Publishes =>
          \A u \in Users \ {Me} :
            /\ dbSeen[u] = SeenAt(now - OnlineWindowMinutes * MinuteMs) =>
                 u \notin onlineUsers'
            /\ dbSeen[u] = SeenAt(now - OnlineWindowMinutes * MinuteMs + 1) =>
                 u \in onlineUsers']_vars

\* C17: every snapshot that fetchOnlineUsers publishes while the user is
\* signed in contains the local user, whatever the rows of the query.
C17_SnapshotHasLocalUser ==
  [][(Publishes /\ supabaseUser # NULL) => supabaseUser \in onlineUsers']_vars

C17_Witness ==
  /\ supabaseUser = Me
  /\ presence["fetch"] = 0
  /\ presence["update"] = 0
  /\ dbSeen[Me] = NeverSeen
  /\ Me \notin OnlineRows(now)
  /\ Me \in onlineUsers

\* ----------------------------------------- malformed events (SpecMalformed)
\* C18: a candidate without an id never appears in the message list, and no
\* ingestion of an event the live channel can still deliver throws.
C18_MalformedDropped ==
  /\ [](\A i \in DOMAIN messages : messages[i].id # NoId)
  /\ [](\A e \in feed :
          (/\ mounted
           /\ e.table = "chat_messages"
           /\ e.n < MaxDeliver
           /\ e.chan.room = payloadNew(e.row).room_id) =>
            ~updateMessageListThrows(messages, payloadNew(e.row)))

\* --------------------------------------------------- unique ids (SpecIngest)
\* C19: the message list never holds two entries with the same id, whatever
\* the order of the bulk history load, the provisional inserts, the rows
\* returned by the writes and the live INSERT events with their redeliveries.
C19_UniqueIds ==
  \A i, j \in DOMAIN messages : messages[i].id = messages[j].id => i = j

C19_Witness ==
  /\ Len(messages) >= 2
  /\ \E s \in sends : s.phase = "done"
  /\ \E e \in feed : e.table = "chat_messages" /\ e.n = MaxDeliver
  /\ \A r \in Rooms : initFetches[r] = 0 /\ loads[<<r, "lmFetch">>] = 0
  /\ \E i \in DOMAIN messages : messages[i].room_id = Undefined
  /\ \E i \in DOMAIN messages : messages[i].room_id = "A"

\* ------------------------------------------- provisional entries (SpecSameText)
\* C20: the message list never holds two provisional entries with the same
\* user_id and message, also when the user sends the same text again before
\* the echo of the first send has arrived.
C20_OneProvisionalPerContent ==
  \A i, j \in DOMAIN messages :
    (/\ startsWithTemp(messages[i].id)
     /\ startsWithTemp(messages[j].id)
     /\ messages[i].user_id = messages[j].user_id
     /\ messages[i].message = messages[j].message) => i = j

C20_Witness ==
  \E s1, s2 \in sends :
    /\ s1.text = s2.text
    /\ s1.phase = "write"
    /\ s2.phase = "write"
    /\ s1.t # s2.t
    /\ \E i \in DOMAIN messages :
         startsWithTemp(messages[i].id) /\ messages[i].message = s1.text

\* ---------------------------------------------- empty-room sweep (SpecSweep)
\* C21: a run of checkAndDeleteEmptyRooms whose presence query returned no
\* online user deletes no room.
C21_SweepGuard ==
  [][\A w \in sweeps :
       (w.rows = {} /\ w \notin sweeps') => dbRooms' = dbRooms]_vars

\* C22: chat_room_members holds at most one row per (room_id, user_id), the
\* rows are those of the members, and a joinChatRoom of a user who is a
\* member inserts nothing.
C22_MembershipUnique ==
  /\ \A k \in Rooms \X Users : memberRows[k] <= 1
  /\ dbMembers = {k \in Rooms \X Users : memberRows[k] > 0}

\* a join of one session was rejected by the store after its select had
\* found no row, because the other session had inserted the row in between
C22_Witness ==
  /\ memberRows[<<"A", Me>>] = 1
  /\ \E j \in tabJoins : j.phase = "thrown" /\ j.room = "A"
  /\ \E m \in memberOps : m.op = "join" /\ m.phase = "done"

\* C23: the message list is ordered newest first by created_at in every
\* reachable state.
C23_NewestFirst ==
  \A i, j \in DOMAIN messages :
    i < j => messages[i].created_at >= messages[j].created_at

\* C24: isSubscribed is true only while the messages, presence and membership
\* channels of the hook are established; a run of the subscription effect
\* that throws part-way leaves no channel subscribed and isSubscribed false,
\* and keeps the messages of the list.
C24_LiveOnlyWhileSubscribed ==
  /\ [](isSubscribed =>
          \A k \in {"messages", "presence", "members"} :
            /\ subscriptions[k] # NoHandle
            /\ subscriptions[k] \in channels)
  /\ [][(epoch' = epoch + 1 /\ errs' = errs + 1) =>
          /\ ~isSubscribed'
          /\ subscriptions' = NoSubscriptions
          /\ channels' = {}
          /\ messages' = messages]_vars

\* a setup that threw after the session had been live and had received a
\* message: not live, no channel, the message still in the list
C24_Witness ==
  /\ supabaseUser # NULL
  /\ rtError = "setup"
  /\ ~isSubscribed
  /\ channels = {}
  /\ messages # <<>>

\* no call of the load effect, loadMessages, loadMembers, joinRoom or
\* leaveRoom is awaiting an answer
NoLoadInFlight ==
  /\ \A k \in DOMAIN loads : loads[k] = 0
  /\ \A m \in memberOps : m.phase \in {"done", "failed", "returned"}

\* C25: with a room selected by a signed-in user, loading is false whenever
\* no load, join or leave is in flight, and once an existing room is
\* selected by a signed-in user loading becomes false in the end.
C25_LoadingCompletes ==
  /\ [](roomId # NULL /\ supabaseUser # NULL /\ NoLoadInFlight => ~loading)
  /\ (roomId # NULL /\ supabaseUser # NULL /\ roomId \in dbRooms) ~> ~loading

\* C26: the rows of chat_messages written by the local user are one per
\* sendMessage call whose write succeeded: for every room and text, as many
\* rows as calls that are past their write.
C26_OneSendOneWrite ==
  \A r \in Rooms, text \in Texts :
    Cardinality({i \in DOMAIN dbMessages :
                   /\ dbMessages[i].user_id = Me
                   /\ dbMessages[i].room_id = r
                   /\ dbMessages[i].message = text})
      = Cardinality({s \in sends :
                       s.room = r /\ s.text = text /\ s.phase \in {"resp", "done"}})

\* C27: a step of the empty-room sweep never deletes the room that is
\* selected when the step is taken.
C27_SweepSparesSelected ==
  [][\A r \in dbRooms \ dbRooms' : sweeps' # sweeps => r # roomId]_vars

\* C28: roomExists goes from true to false only when the store has no row
\* for the selected room.
C28_NotFoundOnlyWhenMissing ==
  [][(roomExists /\ ~roomExists') => roomId \notin dbRooms]_vars

\* C29: a step of the empty-room sweep does not delete a room in which the
\* user who runs it holds a membership row when the step reads the members.
C29_SweepSparesOwnRooms ==
  [][\A r \in dbRooms \ dbRooms' :
       sweeps' # sweeps => <<r, supabaseUser>> \notin dbMembers]_vars

\* a sweep that started with no room selected and a presence query without
\* rows has gone through all rooms; room A, of which the user is a member,
\* was on its list and is still there
C29_Witness ==
  \E w \in sweeps :
    /\ w.todo = {}
    /\ w.rows = {}
    /\ w.selectedRoomId = NULL
    /\ "A" \in rooms
    /\ "A" \in dbRooms
    /\ <<"A", Me>> \in dbMembers

\* C30: whenever Clerk reports no user and no syncUser or refetch run awaits
\* an answer, supabaseUser is null; and a run that is answered while Clerk
\* reports no user leaves supabaseUser null.
C30_SignOutWins ==
  /\ []((clerkUser = NULL /\ \A y \in syncs : y.phase = "done")
          => supabaseUser = NULL)
  /\ [][(clerkUser = NULL /\ clerkUser' = NULL /\ syncs' # syncs)
          => supabaseUser' = NULL]_vars
====
